---------------------------- MODULE Spec2Model ----------------------------
(***************************************************************************)
(* A model of the Hangul engine of hangul-fun: the codepoint classifier    *)
(* and syllable codec of hangul.rs and the look-ahead JamoStream of        *)
(* jamo_stream.rs.                                                         *)
(*                                                                         *)
(* A char is modelled by its Unicode scalar value (a natural number), a    *)
(* String by the sequence of its chars, and an Option<T> by a sequence of  *)
(* length 0 (None) or 1 (Some(x)).                                         *)
(***************************************************************************)
EXTENDS Integers, Sequences, FiniteSets, TLC

VARIABLES
    pc,                 \* position of the driver of the specification in use
    ch,                 \* hangul.rs: the char given to decompose_hangul_syllable_to_jamos
    idx,                \* the three *_codepoint_idx locals of the decomposition
    decomposed,         \* what decompose_hangul_syllable_to_jamos did: [panic, ret]
    chars,              \* the char sequence given to compose_hangul_jamos_to_syllable
    composed,           \* the Option<char> it returned
    value,              \* the string given to split / decompose_all_hangul_syllables
    split_result,       \* Vec<(HangulCharClass, &str)> returned by split
    decompose_all_result, \* String returned by decompose_all_hangul_syllables
    text,               \* the string given to JamoStream::from_hangul_syllables
    jamos,              \* JamoStream.jamos
    syllable_indices,   \* JamoStream.syllable_indices
    index,              \* JamoStream.index
    syllable_index,     \* JamoStream.syllable_index
    item,               \* the Option<JamoInStream> returned by the last next()
    calls,              \* how many times next() has been called
    seeks,              \* how many times seek_to_syllable() has been called
    last_op,            \* the last operation on the stream, with its argument and pre-state
    result,             \* pronunciation.rs: `result` of apply_pronunciation_rules_to_jamos
    skip_next_initial_consonant,  \* its flag of the same name
    pushed,             \* the chars its last loop iteration pushed onto `result`
    rule_results,       \* the rules its last loop iteration called: [rule, ctx, result]
    romanized,          \* romanize.rs: `result` of romanize_decomposed_hangul
    prev_char,          \* its Option<char> of the same name
    chain,              \* what is left of value.chars().chain(" ".chars())
    emitted,            \* what its last loop iteration appended to `result`
    input,              \* lrc.rs: the &str given to parse_timestamp
    parsed,             \* the IResult of it: [ok, rest, ms], ok = FALSE for an Err
    jamo_arg,           \* romanize.rs / main.rs: the arguments [ch, is_next_vowel] of a lookup
    jamo_romanized,     \* what get_romanized_jamo and main.rs get_romanized return for them
    lyrics,             \* play.rs App: lyrics, as a sequence of <<timestamp (ms), line>>
    lyrics_lines_to_show,
    first_lyrics_line,
    curr_lyrics_line,
    curr_word,
    curr_syllable,
    sink_pos,           \* what self.sink.get_pos() returned last (ms)
    playback_line_idx   \* what get_playback_line_idx returned last

codecVars  == <<ch, idx, decomposed>>
composeVars == <<chars, composed>>
stringVars == <<value, split_result, decompose_all_result>>
streamVars == <<text, jamos, syllable_indices, index, syllable_index, item, calls,
                seeks, last_op>>
pronounceVars == <<result, skip_next_initial_consonant, pushed, rule_results>>
romanizeVars == <<romanized, prev_char, chain, emitted>>
lrcVars == <<input, parsed>>
tableVars == <<jamo_arg, jamo_romanized>>
playVars == <<lyrics, lyrics_lines_to_show, first_lyrics_line, curr_lyrics_line,
              curr_word, curr_syllable, sink_pos, playback_line_idx>>
vars == <<pc, codecVars, composeVars, stringVars, streamVars, pronounceVars,
          romanizeVars, lrcVars, tableVars, playVars>>

-----------------------------------------------------------------------------
(* Option<T> *)

None == <<>>
Some(x) == <<x>>
IsSome(o) == Len(o) = 1
Unwrap(o) == o[1]

-----------------------------------------------------------------------------
(* Bounds of the model *)

\* how many scalar values on each side of a class-range edge are tried
EdgeWidth == 2
\* longest string given to split and decompose_all_hangul_syllables
MaxStrLen == 3
\* longest char sequence given to compose_hangul_jamos_to_syllable
MaxComposeLen == 3
\* longest text (in chars, before decomposition) a JamoStream is built from
MaxTextLen == 3
\* how many next() calls are made on one stream
MaxCalls == 11
\* how many seek_to_syllable() calls are made on one stream
MaxSeeks == 2

-----------------------------------------------------------------------------
(* Unicode scalar values and the numbers of the syllable formula *)

SyllablesFirst == 44032      \* U+AC00
SyllablesLast == 55215       \* U+D7AF
JamoFirst == 4352            \* U+1100
JamoLast == 4607             \* U+11FF
CompatibilityJamoFirst == 12592  \* U+3130
CompatibilityJamoLast == 12687   \* U+318F
JamoExtendedAFirst == 43360  \* U+A960
JamoExtendedALast == 43391   \* U+A97F
JamoExtendedBFirst == 55216  \* U+D7B0
JamoExtendedBLast == 55295   \* U+D7FF
InitialBase == 4352          \* 0x1100
MedialBase == 4449           \* 0x1161
FinalBase == 4519            \* 0x11a7
InitialStride == 588
MedialStride == 28
SurrogateFirst == 55296      \* U+D800
SurrogateLast == 57343       \* U+DFFF
CharMax == 1114111           \* U+10FFFF

\* char::from_u32 / char::try_from(u32): a scalar value is a char unless it
\* is a surrogate or lies beyond U+10FFFF
IsChar(cp) == cp \in 0..CharMax /\ ~(cp \in SurrogateFirst..SurrogateLast)

\* str::len_utf8 of a char: char_indices and string slices count bytes
len_utf8(c) ==
    IF c < 128 THEN 1 ELSE IF c < 2048 THEN 2 ELSE IF c < 65536 THEN 3 ELSE 4

-----------------------------------------------------------------------------
(* hangul.rs: impl From<char> for HangulCharClass *)

HangulCharClass_from_jamo_to_1112(c) ==
    IF c \in SyllablesFirst..SyllablesLast THEN "Syllables"
    ELSE IF c \in JamoFirst..4370 THEN "Jamo"
    ELSE IF c \in CompatibilityJamoFirst..CompatibilityJamoLast THEN "CompatibilityJamo"
    ELSE IF c \in JamoExtendedAFirst..JamoExtendedALast THEN "JamoExtendedA"
    ELSE IF c \in JamoExtendedBFirst..JamoExtendedBLast THEN "JamoExtendedB"
    ELSE "None"

HangulCharClass_from(c) ==
    IF c \in SyllablesFirst..SyllablesLast THEN "Syllables"
    ELSE IF c \in JamoFirst..JamoLast THEN "Jamo"
    ELSE IF c \in CompatibilityJamoFirst..CompatibilityJamoLast THEN "CompatibilityJamo"
    ELSE IF c \in JamoExtendedAFirst..JamoExtendedALast THEN "JamoExtendedA"
    ELSE IF c \in JamoExtendedBFirst..JamoExtendedBLast THEN "JamoExtendedB"
    ELSE "None"

-----------------------------------------------------------------------------
(* hangul.rs: decompose_hangul_syllable_to_jamos *)

initial_codepoint_idx(c) == (c - SyllablesFirst) \div InitialStride

medial_codepoint_idx_div_by_21(c) ==
    ((c - SyllablesFirst) - initial_codepoint_idx(c) * InitialStride) \div 21

medial_codepoint_idx(c) ==
    ((c - SyllablesFirst) - initial_codepoint_idx(c) * InitialStride) \div MedialStride

final_codepoint_idx(c) ==
    (c - SyllablesFirst) - initial_codepoint_idx(c) * InitialStride
        - medial_codepoint_idx(c) * MedialStride

\* [panic |-> whether an unwrap() or an assert_eq! failed,
\*  ret   |-> the Option<(char, char, Option<char>)> returned otherwise]
decompose_hangul_syllable_to_jamos(c) ==
    IF HangulCharClass_from(c) # "Syllables"
    THEN [panic |-> FALSE, ret |-> None]
    ELSE LET initial_codepoint == InitialBase + initial_codepoint_idx(c)
             medial_codepoint == MedialBase + medial_codepoint_idx(c)
             final_codepoint == FinalBase + final_codepoint_idx(c)
             maybe_final_ch ==
                 IF final_codepoint_idx(c) = 0 THEN None
                 ELSE IF IsChar(final_codepoint) THEN Some(final_codepoint)
                 ELSE None
         IN  IF \/ ~IsChar(initial_codepoint)
                \/ ~IsChar(medial_codepoint)
                \/ HangulCharClass_from(initial_codepoint) # "Jamo"
                \/ HangulCharClass_from(medial_codepoint) # "Jamo"
             THEN [panic |-> TRUE, ret |-> None]
             ELSE [panic |-> FALSE,
                   ret |-> Some(<<initial_codepoint, medial_codepoint, maybe_final_ch>>)]

\* hangul.rs: count_jamos_in_syllable
count_jamos_in_syllable(c) ==
    LET d == decompose_hangul_syllable_to_jamos(c).ret
    IN  IF ~IsSome(d) THEN 0 ELSE IF Unwrap(d)[3] = None THEN 2 ELSE 3

-----------------------------------------------------------------------------
(* hangul.rs: compose_hangul_jamos_to_syllable *)

compose_final_base_11a8(cs) ==
    IF Len(cs) < 2 THEN None
    ELSE IF cs[1] < InitialBase \/ cs[2] < MedialBase THEN None
    ELSE IF Len(cs) >= 3 /\ cs[3] < 4520 THEN None
    ELSE LET final_idx == IF Len(cs) >= 3 THEN cs[3] - 4520 ELSE 0
             codepoint == (cs[1] - InitialBase) * InitialStride
                            + (cs[2] - MedialBase) * MedialStride + final_idx + SyllablesFirst
         IN  IF IsChar(codepoint) /\ HangulCharClass_from(codepoint) = "Syllables"
             THEN Some(codepoint) ELSE None

\* chars.next() is called at most three times: only the first three chars of
\* the sequence are consumed.  No product or sum passes 2^32: a char is at
\* most U+10FFFF, so codepoint < 1109759 * (588 + 28 + 1) + 44032.
compose_hangul_jamos_to_syllable(cs) ==
    IF Len(cs) < 1 THEN None                        \* no initial_ch
    ELSE IF cs[1] < InitialBase THEN None           \* checked_sub(0x1100)
    ELSE IF Len(cs) < 2 THEN None                   \* no medial_ch
    ELSE IF cs[2] < MedialBase THEN None            \* checked_sub(0x1161)
    ELSE IF Len(cs) >= 3 /\ cs[3] < FinalBase THEN None   \* checked_sub(0x11a7)
    ELSE LET initial_idx == cs[1] - InitialBase
             medial_idx == cs[2] - MedialBase
             final_idx == IF Len(cs) >= 3 THEN cs[3] - FinalBase ELSE 0
             codepoint == initial_idx * InitialStride + medial_idx * MedialStride
                            + final_idx + SyllablesFirst
         IN  IF ~IsChar(codepoint) THEN None
             ELSE IF HangulCharClass_from(codepoint) = "Syllables"
                  THEN Some(codepoint) ELSE None

\* the chars of the triple returned by the decomposition, in order, as
\* hangul_syllable_to_jamos formats them
TripleChars(t) == IF t[3] = None THEN <<t[1], t[2]>> ELSE <<t[1], t[2], Unwrap(t[3])>>


-----------------------------------------------------------------------------
(* Inputs of the codec specifications *)

ClassEdges ==
    {0, JamoFirst, JamoLast, CompatibilityJamoFirst, CompatibilityJamoLast,
     JamoExtendedAFirst, JamoExtendedALast, SyllablesFirst, SyllablesLast,
     JamoExtendedBFirst, JamoExtendedBLast, SurrogateLast, CharMax}

\* the chars within EdgeWidth of an edge of a class range
EdgeChars ==
    {c \in UNION {(e - EdgeWidth)..(e + EdgeWidth) : e \in ClassEdges} : IsChar(c)}

\* every char of the Hangul Syllables range, and the chars around every edge
CodecChars == (SyllablesFirst..SyllablesLast) \cup EdgeChars

NoDecomposition == [panic |-> FALSE, ret |-> None]

CodecIdle == ch = 0 /\ idx = <<>> /\ decomposed = NoDecomposition
ComposeIdle == chars = <<>> /\ composed = None
StringIdle == value = <<>> /\ split_result = <<>> /\ decompose_all_result = <<>>
StreamIdle ==
    /\ text = <<>> /\ jamos = <<>> /\ syllable_indices = <<>>
    /\ index = 0 /\ syllable_index = 0 /\ item = None
    /\ calls = 0 /\ seeks = 0 /\ last_op = [op |-> "new"]
PronounceIdle ==
    /\ result = <<>> /\ skip_next_initial_consonant = FALSE /\ pushed = <<>>
    /\ rule_results = <<>>
RomanizeIdle == romanized = <<>> /\ prev_char = None /\ chain = <<>> /\ emitted = <<>>
LrcIdle == input = <<>> /\ parsed = [ok |-> FALSE, rest |-> <<>>, ms |-> 0]
TableIdle ==
    /\ jamo_arg = [ch |-> 0, is_next_vowel |-> FALSE]
    /\ jamo_romanized = [romanize |-> None, main |-> None]
PlayIdle ==
    /\ lyrics = <<>> /\ lyrics_lines_to_show = 0
    /\ first_lyrics_line = 0 /\ curr_lyrics_line = 0
    /\ curr_word = 0 /\ curr_syllable = 0
    /\ sink_pos = 0 /\ playback_line_idx = None

-----------------------------------------------------------------------------
(* SpecCodec: decompose one char, then compose the jamos it gave *)

InitCodec ==
    /\ pc = "codec_start"
    /\ ch \in CodecChars
    /\ idx = <<>>
    /\ decomposed = NoDecomposition
    /\ ComposeIdle /\ StringIdle /\ StreamIdle
    /\ PronounceIdle /\ RomanizeIdle /\ LrcIdle
    /\ TableIdle /\ PlayIdle

\* hangul.rs: decompose_hangul_syllable_to_jamos(ch)
Decompose ==
    /\ pc = "codec_start"
    /\ decomposed' = decompose_hangul_syllable_to_jamos(ch)
    /\ idx' = IF HangulCharClass_from(ch) = "Syllables"
              THEN <<initial_codepoint_idx(ch), medial_codepoint_idx(ch),
                     final_codepoint_idx(ch)>>
              ELSE <<>>
    /\ pc' = "codec_decomposed"
    /\ UNCHANGED <<ch, composeVars, stringVars, streamVars,
                   pronounceVars, romanizeVars, lrcVars,
                   tableVars, playVars>>

\* hangul.rs: compose_hangul_jamos_to_syllable over the jamos just returned
Recompose ==
    /\ pc = "codec_decomposed"
    /\ ~decomposed.panic
    /\ IsSome(decomposed.ret)
    /\ chars' = TripleChars(Unwrap(decomposed.ret))
    /\ composed' = compose_hangul_jamos_to_syllable(chars')
    /\ pc' = "codec_composed"
    /\ UNCHANGED <<codecVars, stringVars, streamVars,
                   pronounceVars, romanizeVars, lrcVars,
                   tableVars, playVars>>

NextCodec == Decompose \/ Recompose

SpecCodec == InitCodec /\ [][NextCodec]_vars

-----------------------------------------------------------------------------
(* SpecCompose: compose an arbitrary short char sequence *)

RECURSIVE SeqsUpTo(_, _)
\* all sequences over S of length at most n
SeqsUpTo(S, n) ==
    IF n = 0 THEN {<<>>}
    ELSE LET shorter == SeqsUpTo(S, n - 1)
         IN  shorter \cup {Append(s, x) : s \in {t \in shorter : Len(t) = n - 1}, x \in S}

\* 'h', the first, the silent and the last modern initial, the first archaic
\* initial, the first and last modern vowel, the first archaic vowel, the
\* first and last modern final, the first archaic final, the ideographic
\* comma U+3001 and the last char
ComposeAlphabet ==
    {104, 4352, 4363, 4370, 4371, 4449, 4469, 4470, 4520, 4546, 4547, 12289, CharMax}

InitCompose ==
    /\ pc = "compose_start"
    /\ chars \in SeqsUpTo(ComposeAlphabet, MaxComposeLen)
    /\ composed = None
    /\ CodecIdle /\ StringIdle /\ StreamIdle
    /\ PronounceIdle /\ RomanizeIdle /\ LrcIdle
    /\ TableIdle /\ PlayIdle

\* hangul.rs: compose_hangul_jamos_to_syllable(chars)
Compose ==
    /\ pc = "compose_start"
    /\ composed' = compose_hangul_jamos_to_syllable(chars)
    /\ pc' = "compose_done"
    /\ UNCHANGED <<chars, codecVars, stringVars, streamVars,
                   pronounceVars, romanizeVars, lrcVars,
                   tableVars, playVars>>

NextCompose == Compose

SpecCompose == InitCompose /\ [][NextCompose]_vars

-----------------------------------------------------------------------------
(* Claims about the syllable codec *)

\* C1: Round-trip.  For every char of the Hangul Syllables range
\* U+AC00..U+D7AF the decomposition returns a triple, and composing that
\* triple returns Some of the original char.
C1_RoundTrip ==
    /\ (pc = "codec_decomposed" /\ ch \in SyllablesFirst..SyllablesLast)
          => (~decomposed.panic /\ IsSome(decomposed.ret))
    /\ pc = "codec_composed" => composed = Some(ch)

\* the last char of the range, U+D7AF, has been decomposed and recomposed
C1_Witness ==
    /\ pc = "codec_composed"
    /\ ch = SyllablesLast
    /\ Len(chars) = 3

\* C2 as stated: for every char classified as Syllables the indices satisfy
\* codepoint - 0xAC00 = initial_idx*588 + medial_idx*28 + final_idx with
\* initial_idx in [0,18), medial_idx in [0,21) and final_idx in [0,28).
C2_AsClaimed ==
    (pc = "codec_decomposed" /\ HangulCharClass_from(ch) = "Syllables")
        => /\ ch - 44032 = idx[1] * 588 + idx[2] * 28 + idx[3]
           /\ idx[1] \in 0..17
           /\ idx[2] \in 0..20
           /\ idx[3] \in 0..27

\* C2 amended: the equation holds with medial_idx in [0,21) and final_idx in
\* [0,28); initial_idx is in [0,19) for the 11,172 syllables U+AC00..U+D7A3
\* and is 19 for the twelve chars U+D7A4..U+D7AF, which are classified as
\* Syllables too.
C2_IndexRanges ==
    (pc = "codec_decomposed" /\ HangulCharClass_from(ch) = "Syllables")
        => /\ ch - 44032 = idx[1] * 588 + idx[2] * 28 + idx[3]
           /\ idx[2] \in 0..20
           /\ idx[3] \in 0..27
           /\ IF ch < 44032 + 19 * 588 THEN idx[1] \in 0..18 ELSE idx[1] = 19

\* U+D7A3, the last syllable: the largest index of each kind at once
C2_Witness ==
    /\ pc = "codec_decomposed"
    /\ ch = 55203
    /\ idx = <<18, 20, 27>>

\* C3: the decomposition returns None exactly when the char's class is not
\* Syllables; for a char of class Syllables neither unwrap() nor assert_eq!
\* fails and the initial and the medial returned classify as Jamo.
C3_NoneIffNotSyllable ==
    pc = "codec_decomposed"
        => /\ ~decomposed.panic
           /\ (decomposed.ret = None) <=> (HangulCharClass_from(ch) # "Syllables")
           /\ IsSome(decomposed.ret)
                => /\ HangulCharClass_from(Unwrap(decomposed.ret)[1]) = "Jamo"
                   /\ HangulCharClass_from(Unwrap(decomposed.ret)[2]) = "Jamo"

\* U+B294 decomposes into U+1102, U+1173 and U+11AB, as the test expects
C3_Witness ==
    /\ pc = "codec_decomposed"
    /\ ch = 45716
    /\ decomposed = [panic |-> FALSE, ret |-> Some(<<4354, 4467, Some(4523)>>)]

\* jamo_stream.rs: ModernJamo::try_from_char, as the variant's name
try_from_char(c) ==
    IF c \in 4352..4370 THEN Some("InitialConsonant")        \* U+1100..=U+1112
    ELSE IF c \in 4449..4469 THEN Some("Vowel")              \* U+1161..=U+1175
    ELSE IF c \in 4520..4546 THEN Some("FinalConsonant")     \* U+11A8..=U+11C2
    ELSE None

\* jamo_stream.rs: ModernJamo::is_initial_consonant
is_initial_consonant(c) == try_from_char(c) = Some("InitialConsonant")

\* a consumed char that is not a jamo valid for its position
Malformed(cs) ==
    \/ Len(cs) < 2
    \/ try_from_char(cs[1]) # Some("InitialConsonant")
    \/ try_from_char(cs[2]) # Some("Vowel")
    \/ Len(cs) >= 3 /\ try_from_char(cs[3]) # Some("FinalConsonant")

\* C4: compose_hangul_jamos_to_syllable returns None for every malformed
\* input: fewer than 2 chars, or a consumed char that is not a Hangul jamo
\* valid for its position (initial consonant, vowel, final consonant).
C4_MalformedGivesNone ==
    (pc = "compose_done" /\ Malformed(chars)) => composed = None

-----------------------------------------------------------------------------
(* hangul.rs: HangulCharClass::split *)

RECURSIVE SumLens(_, _)
\* the byte length of the first n chars of v
SumLens(v, n) == IF n = 0 THEN 0 ELSE SumLens(v, n - 1) + len_utf8(v[n])

\* str::char_indices: the byte offset at which the i-th char (from 1) starts
byte_index(v, i) == SumLens(v, i - 1)

\* &value[a..b] for byte offsets a <= b that are char boundaries
str_slice(v, a, b) ==
    LET I == {i \in 1..Len(v) : byte_index(v, i) >= a /\ byte_index(v, i) < b}
        first == CHOOSE i \in I : \A j \in I : i <= j
    IN  IF I = {} THEN <<>> ELSE [k \in 1..Cardinality(I) |-> v[first + k - 1]]

\* a mutation of the loop body: the new run keeps the class of the old one
split_step_keeps_class(v, i, st) ==
    LET curr_idx == byte_index(v, i)
        class == HangulCharClass_from(v[i])
    IN  IF IsSome(st.pos)
        THEN IF class # Unwrap(st.pos)[2]
             THEN [result |-> Append(st.result,
                                     <<Unwrap(st.pos)[2],
                                       str_slice(v, Unwrap(st.pos)[1], curr_idx)>>),
                   pos |-> Some(<<curr_idx, Unwrap(st.pos)[2]>>)]
             ELSE st
        ELSE [result |-> st.result, pos |-> Some(<<curr_idx, class>>)]

\* one iteration of `for (curr_idx, char) in value.char_indices()`;
\* st = [result, pos], pos the Option<(usize, HangulCharClass)>
split_step(v, i, st) ==
    LET curr_idx == byte_index(v, i)
        class == HangulCharClass_from(v[i])
    IN  IF IsSome(st.pos)
        THEN IF class # Unwrap(st.pos)[2]
             THEN [result |-> Append(st.result,
                                     <<Unwrap(st.pos)[2],
                                       str_slice(v, Unwrap(st.pos)[1], curr_idx)>>),
                   pos |-> Some(<<curr_idx, class>>)]
             ELSE st
        ELSE [result |-> st.result, pos |-> Some(<<curr_idx, class>>)]

RECURSIVE split_loop(_, _)
\* the state after the first n iterations of the loop
split_loop(v, n) ==
    IF n = 0 THEN [result |-> <<>>, pos |-> None]
    ELSE split_step(v, n, split_loop(v, n - 1))

\* a mutation: the run still open when the loop ends is not pushed
split_drops_open_run(v) == split_loop(v, Len(v)).result

split(v) ==
    LET st == split_loop(v, Len(v))
    IN  IF IsSome(st.pos)
        THEN Append(st.result,
                    <<Unwrap(st.pos)[2],
                      str_slice(v, Unwrap(st.pos)[1], SumLens(v, Len(v)))>>)
        ELSE st.result

-----------------------------------------------------------------------------
(* hangul.rs: hangul_syllable_to_jamos, decompose_all_hangul_syllables *)

\* a mutation: the final consonant is left out of the expansion
hangul_syllable_to_jamos_drops_final(c) ==
    LET d == decompose_hangul_syllable_to_jamos(c).ret
    IN  IF IsSome(d) THEN Some(<<Unwrap(d)[1], Unwrap(d)[2]>>) ELSE None

\* Option<String>: the jamos of a syllable, None for any other char
hangul_syllable_to_jamos(c) ==
    LET d == decompose_hangul_syllable_to_jamos(c).ret
    IN  IF IsSome(d) THEN Some(TripleChars(Unwrap(d))) ELSE None

RECURSIVE decompose_all_loop(_, _)
\* `result` after the first n iterations of `for ch in str.chars()`
decompose_all_loop(v, n) ==
    IF n = 0 THEN <<>>
    ELSE LET jamos_of_ch == hangul_syllable_to_jamos(v[n])
         IN  IF IsSome(jamos_of_ch)
             THEN decompose_all_loop(v, n - 1) \o Unwrap(jamos_of_ch)
             ELSE Append(decompose_all_loop(v, n - 1), v[n])

decompose_all_hangul_syllables(v) == decompose_all_loop(v, Len(v))

\* whether a call of decompose_hangul_syllable_to_jamos made for v panics
decompose_all_panics(v) ==
    \E i \in 1..Len(v) : decompose_hangul_syllable_to_jamos(v[i]).panic

-----------------------------------------------------------------------------
(* SpecString: split a short string, or decompose all its syllables *)

\* space, 'h', U+E9 (2 bytes in UTF-8), the Jamo U+110B, the Compatibility
\* Jamo U+3131, the Extended-A jamo U+A960, the syllables U+B294 (3 jamos)
\* and U+C774 (2 jamos), the Extended-B jamo U+D7B0 and U+1F600 (4 bytes)
StringAlphabet == {32, 104, 233, 4363, 12593, 43360, 45716, 51060, 55216, 128512}

InitString ==
    /\ pc = "string_start"
    /\ value \in SeqsUpTo(StringAlphabet, MaxStrLen)
    /\ split_result = <<>>
    /\ decompose_all_result = <<>>
    /\ CodecIdle /\ ComposeIdle /\ StreamIdle
    /\ PronounceIdle /\ RomanizeIdle /\ LrcIdle
    /\ TableIdle /\ PlayIdle

\* hangul.rs: HangulCharClass::split(value)
Split ==
    /\ pc = "string_start"
    /\ split_result' = split(value)
    /\ pc' = "split_done"
    /\ UNCHANGED <<value, decompose_all_result, codecVars, composeVars, streamVars,
                   pronounceVars, romanizeVars, lrcVars,
                   tableVars, playVars>>

\* hangul.rs: decompose_all_hangul_syllables(value)
DecomposeAll ==
    /\ pc = "string_start"
    /\ IF decompose_all_panics(value)
       THEN pc' = "decompose_all_panicked" /\ UNCHANGED decompose_all_result
       ELSE /\ pc' = "decompose_all_done"
            /\ decompose_all_result' = decompose_all_hangul_syllables(value)
    /\ UNCHANGED <<value, split_result, codecVars, composeVars, streamVars,
                   pronounceVars, romanizeVars, lrcVars,
                   tableVars, playVars>>

NextString == Split \/ DecomposeAll

SpecString == InitString /\ [][NextString]_vars

-----------------------------------------------------------------------------
(* Claims about split and decompose_all_hangul_syllables *)

RECURSIVE ConcatRuns(_, _)
\* the substrings of the first n runs, concatenated in order
ConcatRuns(runs, n) == IF n = 0 THEN <<>> ELSE ConcatRuns(runs, n - 1) \o runs[n][2]

\* C5: Split coverage.  Concatenating in order the substrings returned by
\* split reproduces the string exactly, and split of the empty string is the
\* empty list.
C5_SplitCoverage ==
    pc = "split_done"
        => /\ ConcatRuns(split_result, Len(split_result)) = value
           /\ value = <<>> => split_result = <<>>

\* "h" + U+C774 + " " has been split into three runs
C5_Witness ==
    /\ pc = "split_done"
    /\ value = <<104, 51060, 32>>
    /\ Len(split_result) = 3

\* C6: split produces maximal runs.  Every run is non-empty, every char of a
\* run has exactly the class reported for the run, and two adjacent runs
\* have different classes.
C6_MaximalRuns ==
    pc = "split_done"
        => /\ \A r \in 1..Len(split_result) :
                 /\ Len(split_result[r][2]) >= 1
                 /\ \A k \in 1..Len(split_result[r][2]) :
                        HangulCharClass_from(split_result[r][2][k]) = split_result[r][1]
           /\ \A r \in 1..(Len(split_result) - 1) :
                 split_result[r][1] # split_result[r + 1][1]

\* two chars of class None followed by a syllable give a run of two and a
\* run of one
C6_Witness ==
    /\ pc = "split_done"
    /\ value = <<104, 32, 51060>>
    /\ split_result = << <<"None", <<104, 32>> >>, <<"Syllables", <<51060>> >> >>

\* the expansion the claim gives the i-th char of v: the 2 or 3 jamos of
\* the triple of a syllable, the char itself otherwise
Expansion(v, i) ==
    IF HangulCharClass_from(v[i]) = "Syllables"
    THEN TripleChars(Unwrap(decompose_hangul_syllable_to_jamos(v[i]).ret))
    ELSE <<v[i]>>

RECURSIVE ExpansionOffset(_, _)
\* how many chars the expansions of the first n chars of v take
ExpansionOffset(v, n) ==
    IF n = 0 THEN 0 ELSE ExpansionOffset(v, n - 1) + Len(Expansion(v, n))

\* C7: decompose_all_hangul_syllables(text) is the in-order concatenation
\* of the 2- or 3-jamo expansion of each syllable and of every other char
\* itself; non-syllable chars are kept and no char of the output is of
\* class Syllables.
C7_DecomposeAll ==
    /\ pc # "decompose_all_panicked"
    /\ pc = "decompose_all_done"
        => /\ Len(decompose_all_result) = ExpansionOffset(value, Len(value))
           /\ \A i \in 1..Len(value) :
                 /\ Len(Expansion(value, i)) \in
                        (IF HangulCharClass_from(value[i]) = "Syllables" THEN {2, 3} ELSE {1})
                 /\ \A k \in 1..Len(Expansion(value, i)) :
                        decompose_all_result[ExpansionOffset(value, i - 1) + k]
                            = Expansion(value, i)[k]
           /\ \A j \in 1..Len(decompose_all_result) :
                 HangulCharClass_from(decompose_all_result[j]) # "Syllables"

\* "h", U+B294, U+C774 becomes "h" and the 3 + 2 jamos
C7_Witness ==
    /\ pc = "decompose_all_done"
    /\ value = <<104, 45716, 51060>>
    /\ decompose_all_result = <<104, 4354, 4467, 4523, 4363, 4469>>

-----------------------------------------------------------------------------
(* jamo_stream.rs: JamoStream *)

\* Vec::get / slice::get with a 0-based index
get(v, i) == IF i \in 0..(Len(v) - 1) THEN Some(v[i + 1]) ELSE None

RECURSIVE scan_syllable_indices(_, _)
\* from_jamos: the 0-based indices, among the first n jamos, of the initial
\* consonants, in increasing order
scan_syllable_indices(js, n) ==
    IF n = 0 THEN <<>>
    ELSE IF is_initial_consonant(js[n])
         THEN Append(scan_syllable_indices(js, n - 1), n - 1)
         ELSE scan_syllable_indices(js, n - 1)

\* JamoStream::from_jamos: the fields of the new stream
from_jamos(v) ==
    [jamos |-> v,
     syllable_indices |-> scan_syllable_indices(v, Len(v)),
     index |-> 0,
     syllable_index |-> 0]

\* JamoStream::from_hangul_syllables
from_hangul_syllables(v) == from_jamos(decompose_all_hangul_syllables(v))

\* JamoStream::get_syllable_at on a stream with jamos js and syllable
\* indices si; &js[a..b] is SubSeq(js, a + 1, b)
get_syllable_at(js, si, i) ==
    LET start == get(si, i)
        end == get(si, i + 1)
    IN  IF ~IsSome(start) THEN None
        ELSE compose_hangul_jamos_to_syllable(
                 IF IsSome(end) THEN SubSeq(js, Unwrap(start) + 1, Unwrap(end))
                 ELSE SubSeq(js, Unwrap(start) + 1, Len(js)))

\* a mutation: next() hands out the jamo after the cursor as `curr`
next_item_curr_off_by_one(js, si, i, s) ==
    LET curr == get(js, i + 1)
    IN  IF ~IsSome(curr) THEN None
        ELSE Some([curr |-> Unwrap(curr),
                   prev |-> IF i = 0 THEN None ELSE get(js, i - 1),
                   next |-> get(js, i + 1),
                   next_syllable |-> IF IsSome(get(js, i + 1))
                                     THEN get_syllable_at(js, si, s + 1) ELSE None])

\* <JamoStream as Iterator>::next: the Option<JamoInStream> returned with
\* the cursor at index i and syllable_index s
next_item(js, si, i, s) ==
    LET curr == get(js, i)
        next == get(js, i + 1)
    IN  IF ~IsSome(curr) THEN None
        ELSE Some([curr |-> Unwrap(curr),
                   prev |-> IF i = 0 THEN None ELSE get(js, i - 1),
                   next |-> next,
                   next_syllable |-> IF IsSome(next)
                                     THEN get_syllable_at(js, si, s + 1) ELSE None])

\* <JamoStream as Iterator>::next: syllable_index after the call
next_syllable_index(js, i, s) ==
    LET curr == get(js, i)
        next == get(js, i + 1)
    IN  IF ~IsSome(curr) THEN s
        ELSE IF IsSome(next)
             THEN IF try_from_char(Unwrap(next)) = Some("InitialConsonant")
                  THEN s + 1 ELSE s
             ELSE s + 1

\* <JamoStream as Iterator>::next: index after the call
next_index(js, i) == IF IsSome(get(js, i)) THEN i + 1 ELSE i

\* a mutation: an index past the last syllable start moves the cursor to
\* the end of the jamos
seek_index_out_of_range_to_end(js, si, i, n) ==
    IF IsSome(get(si, n)) THEN Unwrap(get(si, n)) ELSE Len(js)

\* a mutation: an index past the last syllable start moves the cursor back
\* to the first jamo
seek_index_out_of_range_to_start(js, si, i, n) ==
    IF IsSome(get(si, n)) THEN Unwrap(get(si, n)) ELSE 0

\* JamoStream::seek_to_syllable(n): index after the call
seek_index(js, si, i, n) == IF IsSome(get(si, n)) THEN Unwrap(get(si, n)) ELSE i

-----------------------------------------------------------------------------
(* SpecStream: a JamoStream over a short text, driven by next() and *)
(* seek_to_syllable() *)

\* space, the lone vowel jamo U+1161, and the syllables U+BC25 (3 jamos:
\* U+1107 U+1161 U+11B8) and U+C774 (2 jamos: U+110B U+1175)
TextAlphabet == {32, 4449, 48165, 51060}

StreamState == <<jamos, syllable_indices, index, syllable_index>>

InitStream ==
    /\ pc = "stream"
    /\ text \in SeqsUpTo(TextAlphabet, MaxTextLen)
    /\ ~decompose_all_panics(text)
    /\ jamos = from_hangul_syllables(text).jamos
    /\ syllable_indices = from_hangul_syllables(text).syllable_indices
    /\ index = from_hangul_syllables(text).index
    /\ syllable_index = from_hangul_syllables(text).syllable_index
    /\ item = None
    /\ calls = 0
    /\ seeks = 0
    /\ last_op = [op |-> "new", arg |-> None, pre |-> <<>>]
    /\ CodecIdle /\ ComposeIdle /\ StringIdle
    /\ PronounceIdle /\ RomanizeIdle /\ LrcIdle
    /\ TableIdle /\ PlayIdle

\* stream.next()
StreamNext ==
    /\ pc = "stream"
    /\ calls < MaxCalls
    /\ item' = next_item(jamos, syllable_indices, index, syllable_index)
    /\ syllable_index' = next_syllable_index(jamos, index, syllable_index)
    /\ index' = next_index(jamos, index)
    /\ calls' = calls + 1
    /\ last_op' = [op |-> "next",
                   arg |-> IF last_op.op = "seek" THEN last_op.arg ELSE None,
                   pre |-> StreamState]
    /\ UNCHANGED <<pc, text, jamos, syllable_indices, seeks,
                   codecVars, composeVars, stringVars,
                   pronounceVars, romanizeVars, lrcVars,
                   tableVars, playVars>>

\* stream.seek_to_syllable(n), for every n up to one past the last syllable
\* and one further
StreamSeek ==
    /\ pc = "stream"
    /\ seeks < MaxSeeks
    /\ \E n \in 0..(Len(syllable_indices) + 1) :
          /\ index' = seek_index(jamos, syllable_indices, index, n)
          /\ last_op' = [op |-> "seek", arg |-> Some(n), pre |-> StreamState]
    /\ seeks' = seeks + 1
    /\ UNCHANGED <<pc, text, jamos, syllable_indices, syllable_index, item, calls,
                   codecVars, composeVars, stringVars,
                   pronounceVars, romanizeVars, lrcVars,
                   tableVars, playVars>>

NextStream == StreamNext \/ StreamSeek

SpecStream == InitStream /\ [][NextStream]_vars

-----------------------------------------------------------------------------
(* Claims about the JamoStream *)

\* C8: on a stream over L chars on which only next() is called, the k-th
\* call (1 <= k <= L) returns curr = the k-th char, prev = the (k-1)-th
\* (none for k = 1) and next = the (k+1)-th (none for k = L), and every call
\* after the L-th returns none.
C8_NextWalksInOrder ==
    (pc = "stream" /\ seeks = 0 /\ calls >= 1)
        => IF calls <= Len(jamos)
           THEN /\ IsSome(item)
                /\ Unwrap(item).curr = jamos[calls]
                /\ Unwrap(item).prev = (IF calls = 1 THEN None ELSE Some(jamos[calls - 1]))
                /\ Unwrap(item).next =
                       (IF calls = Len(jamos) THEN None ELSE Some(jamos[calls + 1]))
           ELSE item = None

\* the third call on the stream of U+BC25 U+C774 returns the final U+11B8
\* between U+1161 and U+110B, as the test expects
C8_Witness ==
    /\ pc = "stream"
    /\ text = <<48165, 51060>>
    /\ seeks = 0
    /\ calls = 3
    /\ item = Some([curr |-> 4536, prev |-> Some(4449), next |-> Some(4363),
                    next_syllable |-> Some(51060)])

\* the index in t of the char whose expansion holds the p-th jamo (from 1)
CharOfJamo(t, p) ==
    CHOOSE i \in 1..Len(t) : ExpansionOffset(t, i - 1) < p /\ p <= ExpansionOffset(t, i)

\* the first syllable of t that starts after the p-th jamo, if any
NextSyllableAfter(t, p) ==
    LET later == {j \in 1..Len(t) :
                     j > CharOfJamo(t, p) /\ HangulCharClass_from(t[j]) = "Syllables"}
    IN  IF later = {} THEN None
        ELSE Some(t[CHOOSE j \in later : \A k \in later : j <= k])

\* a text of syllables and chars that are no Hangul at all
NoLooseJamo(t) == \A i \in 1..Len(t) : HangulCharClass_from(t[i]) \in {"Syllables", "None"}

\* C9: on a stream over any decomposed text (syllables possibly mixed with
\* spaces or other non-jamo chars) walked with next() only, the record at
\* every position p has next_syllable equal to the syllable composed from
\* the first syllable start located after p, and next_syllable is none only
\* when no syllable starts after p.
C9_NextSyllableIsTheFollowingSyllable ==
    (pc = "stream" /\ seeks = 0 /\ calls \in 1..Len(jamos) /\ NoLooseJamo(text))
        => Unwrap(item).next_syllable = NextSyllableAfter(text, calls)

\* C10: after seek_to_syllable(n) with n less than the number of syllable
\* starts found by the pre-scan, the next next() returns the record whose
\* curr is the initial consonant at the n-th syllable start; with n out of
\* range the whole state of the stream is left as it was.
C10_SeekToSyllable ==
    /\ (pc = "stream" /\ last_op.op = "next" /\ IsSome(last_op.arg)
            /\ Unwrap(last_op.arg) < Len(syllable_indices))
          => /\ IsSome(item)
             /\ Unwrap(item).curr = jamos[syllable_indices[Unwrap(last_op.arg) + 1] + 1]
             /\ is_initial_consonant(Unwrap(item).curr)
    /\ (pc = "stream" /\ last_op.op = "seek"
            /\ Unwrap(last_op.arg) >= Len(syllable_indices))
          => StreamState = last_op.pre

\* on the exhausted stream of U+BC25 U+C774, seek_to_syllable(1) followed by
\* next() returns the silent initial U+110B of the second syllable
C10_Witness ==
    /\ pc = "stream"
    /\ text = <<48165, 51060>>
    /\ last_op.op = "next"
    /\ last_op.arg = Some(1)
    /\ last_op.pre[3] = 3
    /\ calls = 7
    /\ Unwrap(item).curr = 4363

\* seek_to_syllable(2) on the two-syllable stream, two jamos in: nothing moved
C10_WitnessOutOfRange ==
    /\ pc = "stream"
    /\ text = <<48165, 51060>>
    /\ last_op.op = "seek"
    /\ last_op.arg = Some(2)
    /\ index = 2

-----------------------------------------------------------------------------
(* jamo_stream.rs: enum ModernJamo; pronunciation.rs: RuleContext, RuleResult *)

InitialConsonant(c) == [kind |-> "InitialConsonant", ch |-> c]
Vowel(c) == [kind |-> "Vowel", ch |-> c]
FinalConsonant(c) == [kind |-> "FinalConsonant", ch |-> c]

\* ModernJamo::try_from_char with the char kept: Option<ModernJamo>
ModernJamo_try_from_char(c) ==
    IF IsSome(try_from_char(c))
    THEN Some([kind |-> Unwrap(try_from_char(c)), ch |-> c])
    ELSE None

\* the six variants of RuleResult; a field a variant does not carry is None
NoChange == [tag |-> "NoChange", final |-> None, next |-> None]
ChangeNextInitial(n) == [tag |-> "ChangeNextInitial", final |-> None, next |-> Some(n)]
ChangeFinal(f) == [tag |-> "ChangeFinal", final |-> Some(f), next |-> None]
ChangeBoth(f, n) == [tag |-> "ChangeBoth", final |-> Some(f), next |-> Some(n)]
RemoveFinal == [tag |-> "RemoveFinal", final |-> None, next |-> None]
RemoveFinalAndChangeNextInitial(n) ==
    [tag |-> "RemoveFinalAndChangeNextInitial", final |-> None, next |-> Some(n)]

\* whether ctx.next_initial_consonant matches Some(InitialConsonant(_))
NextIsInitial(ctx) ==
    /\ IsSome(ctx.next_initial_consonant)
    /\ Unwrap(ctx.next_initial_consonant).kind = "InitialConsonant"

-----------------------------------------------------------------------------
(* pronunciation.rs: reinforcement_rule *)

\* the finals of the first match arm: U+11B8, U+11A8, U+11BF, U+11AE,
\* U+11BA, U+11BD, U+11BE, U+11C0
ReinforcingFinals == {4536, 4520, 4543, 4526, 4538, 4541, 4542, 4544}

\* `let strengthened = match initial`: g, d, b, s, j to kk, tt, pp, ss, jj
strengthened(initial) ==
    CASE initial = 4352 -> Some(4353)
      [] initial = 4355 -> Some(4356)
      [] initial = 4359 -> Some(4360)
      [] initial = 4361 -> Some(4362)
      [] initial = 4364 -> Some(4365)
      [] OTHER -> None

\* a mutation: the arm for the final U+11C2 before U+1109 keeps the final
reinforcement_rule_h_keeps_final(ctx) ==
    IF ctx.final_consonant.kind = "FinalConsonant"
          /\ ctx.final_consonant.ch \in ReinforcingFinals /\ NextIsInitial(ctx)
    THEN IF IsSome(strengthened(Unwrap(ctx.next_initial_consonant).ch))
         THEN ChangeNextInitial(
                  InitialConsonant(Unwrap(strengthened(Unwrap(ctx.next_initial_consonant).ch))))
         ELSE NoChange
    ELSE IF ctx.final_consonant = FinalConsonant(4546)
               /\ ctx.next_initial_consonant = Some(InitialConsonant(4361))
         THEN ChangeNextInitial(InitialConsonant(4362))
         ELSE NoChange

\* a mutation: the rule never applies
reinforcement_rule_never(ctx) == NoChange

reinforcement_rule(ctx) ==
    IF ctx.final_consonant.kind = "FinalConsonant"
          /\ ctx.final_consonant.ch \in ReinforcingFinals /\ NextIsInitial(ctx)
    THEN IF IsSome(strengthened(Unwrap(ctx.next_initial_consonant).ch))
         THEN ChangeNextInitial(
                  InitialConsonant(Unwrap(strengthened(Unwrap(ctx.next_initial_consonant).ch))))
         ELSE NoChange
    ELSE IF ctx.final_consonant = FinalConsonant(4546)
               /\ ctx.next_initial_consonant = Some(InitialConsonant(4361))
         THEN RemoveFinalAndChangeNextInitial(InitialConsonant(4362))
         ELSE NoChange

-----------------------------------------------------------------------------
(* pronunciation.rs: resyllabification_rule *)

\* `let new_initial = match ch`: the initial a final moves to; the arms
\* that return (U+11BC, U+11C2 and `_`) are left to the rule
new_initial(c) ==
    CASE c = 4520 -> Some(4352)
      [] c = 4521 -> Some(4353)
      [] c = 4523 -> Some(4354)
      [] c = 4526 -> Some(4355)
      [] c = 4527 -> Some(4357)
      [] c = 4535 -> Some(4358)
      [] c = 4536 -> Some(4359)
      [] c = 4538 -> Some(4361)
      [] c = 4539 -> Some(4362)
      [] c = 4541 -> Some(4364)
      [] c = 4542 -> Some(4366)
      [] c = 4543 -> Some(4367)
      [] c = 4544 -> Some(4368)
      [] c = 4545 -> Some(4369)
      [] OTHER -> None

\* a mutation: the velar nasal U+11BC moves like any other final and the
\* final U+11C2 becomes the initial U+1112
resyllabification_rule_no_exceptions(ctx) ==
    IF ctx.final_consonant.kind = "FinalConsonant"
          /\ ctx.next_initial_consonant = Some(InitialConsonant(4363))
    THEN IF ctx.final_consonant.ch = 4540
         THEN RemoveFinalAndChangeNextInitial(InitialConsonant(4363))
         ELSE IF ctx.final_consonant.ch = 4546
         THEN RemoveFinalAndChangeNextInitial(InitialConsonant(4370))
         ELSE IF IsSome(new_initial(ctx.final_consonant.ch))
         THEN RemoveFinalAndChangeNextInitial(
                  InitialConsonant(Unwrap(new_initial(ctx.final_consonant.ch))))
         ELSE NoChange
    ELSE NoChange

\* a mutation: no final ever moves over
resyllabification_rule_never(ctx) == NoChange

resyllabification_rule(ctx) ==
    IF ctx.final_consonant.kind = "FinalConsonant"
          /\ ctx.next_initial_consonant = Some(InitialConsonant(4363))
    THEN IF ctx.final_consonant.ch = 4540 THEN NoChange
         ELSE IF ctx.final_consonant.ch = 4546 THEN RemoveFinal
         ELSE IF IsSome(new_initial(ctx.final_consonant.ch))
         THEN RemoveFinalAndChangeNextInitial(
                  InitialConsonant(Unwrap(new_initial(ctx.final_consonant.ch))))
         ELSE NoChange
    ELSE NoChange

-----------------------------------------------------------------------------
(* pronunciation.rs: compound_consonant_rule *)

\* the arms of `match ctx.consonants()`, in source order, as
\* <<final, next initial matched (None: `_`), new final,
\*   new next initial (None: orig_next_initial)>>
compound_arms ==
    <<
       <<4522, Some(4363), 4520, Some(4361)>>,\* (U+11AA, U+110B) => (U+11A8, U+1109)
       <<4522, None, 4520, None>>,          \* (U+11AA, _) => (U+11A8, orig_next_initial)
       <<4524, Some(4363), 4523, Some(4364)>>,\* (U+11AC, U+110B) => (U+11AB, U+110C)
       <<4524, None, 4523, None>>,          \* (U+11AC, _) => (U+11AB, orig_next_initial)
       <<4525, Some(4352), 4523, Some(4367)>>,\* (U+11AD, U+1100) => (U+11AB, U+110F)
       <<4525, Some(4355), 4523, Some(4368)>>,\* (U+11AD, U+1103) => (U+11AB, U+1110)
       <<4525, Some(4364), 4523, Some(4366)>>,\* (U+11AD, U+110C) => (U+11AB, U+110E)
       <<4525, None, 4523, None>>,          \* (U+11AD, _) => (U+11AB, orig_next_initial)
       <<4528, Some(4363), 4527, Some(4352)>>,\* (U+11B0, U+110B) => (U+11AF, U+1100)
       <<4528, Some(4352), 4527, Some(4353)>>,\* (U+11B0, U+1100) => (U+11AF, U+1101)
       <<4528, None, 4520, None>>,          \* (U+11B0, _) => (U+11A8, orig_next_initial)
       <<4529, Some(4363), 4527, Some(4358)>>,\* (U+11B1, U+110B) => (U+11AF, U+1106)
       <<4529, None, 4535, None>>,          \* (U+11B1, _) => (U+11B7, orig_next_initial)
       <<4530, Some(4363), 4527, Some(4359)>>,\* (U+11B2, U+110B) => (U+11AF, U+1107)
       <<4530, Some(4355), 4536, Some(4355)>>,\* (U+11B2, U+1103) => (U+11B8, U+1103)
       <<4530, None, 4527, None>>,          \* (U+11B2, _) => (U+11AF, orig_next_initial)
       <<4532, Some(4363), 4527, Some(4368)>>,\* (U+11B4, U+110B) => (U+11AF, U+1110)
       <<4532, None, 4527, None>>,          \* (U+11B4, _) => (U+11AF, orig_next_initial)
       <<4531, Some(4363), 4527, Some(4362)>>,\* (U+11B3, U+110B) => (U+11AF, U+110A)
       <<4531, None, 4527, None>>,          \* (U+11B3, _) => (U+11AF, orig_next_initial)
       <<4533, Some(4363), 4527, Some(4369)>>,\* (U+11B5, U+110B) => (U+11AF, U+1111)
       <<4533, None, 4536, None>>,          \* (U+11B5, _) => (U+11B8, orig_next_initial)
       <<4534, Some(4352), 4527, Some(4367)>>,\* (U+11B6, U+1100) => (U+11AF, U+110F)
       <<4534, Some(4355), 4527, Some(4368)>>,\* (U+11B6, U+1103) => (U+11AF, U+1110)
       <<4534, Some(4364), 4527, Some(4366)>>,\* (U+11B6, U+110C) => (U+11AF, U+110E)
       <<4534, None, 4527, None>>,          \* (U+11B6, _) => (U+11AF, orig_next_initial)
       <<4537, Some(4363), 4536, Some(4361)>>,\* (U+11B9, U+110B) => (U+11B8, U+1109)
       <<4537, None, 4536, None>>           \* (U+11B9, _) => (U+11B8, orig_next_initial)
    >>

\* the first arm that matches ctx, 0 when only the last `_` arm does
compound_arm(ctx) ==
    LET matches(r) ==
            /\ ctx.final_consonant = FinalConsonant(compound_arms[r][1])
            /\ \/ compound_arms[r][2] = None
               \/ ctx.next_initial_consonant
                      = Some(InitialConsonant(Unwrap(compound_arms[r][2])))
        hits == {r \in 1..Len(compound_arms) : matches(r)}
    IN  IF hits = {} THEN 0 ELSE CHOOSE r \in hits : \A q \in hits : r <= q

\* a mutation: the cluster U+11AA hands its second letter to every next
\* initial consonant, not only to the silent one
compound_consonant_rule_gs_always_promotes(ctx) ==
    IF ctx.final_consonant = FinalConsonant(4522) /\ NextIsInitial(ctx)
    THEN ChangeBoth(FinalConsonant(4520), InitialConsonant(4361))
    ELSE
    LET orig_next_initial == ctx.next_initial_consonant
        arm == compound_arm(ctx)
        new_final == FinalConsonant(compound_arms[arm][3])
        new_next_initial ==
            IF compound_arms[arm][4] = None THEN orig_next_initial
            ELSE Some(InitialConsonant(Unwrap(compound_arms[arm][4])))
    IN  IF arm = 0 THEN NoChange
        ELSE IF new_next_initial = orig_next_initial THEN ChangeFinal(new_final)
        ELSE IF IsSome(new_next_initial)
             THEN ChangeBoth(new_final, Unwrap(new_next_initial))
             ELSE ChangeFinal(new_final)

compound_consonant_rule(ctx) ==
    LET orig_next_initial == ctx.next_initial_consonant
        arm == compound_arm(ctx)
        new_final == FinalConsonant(compound_arms[arm][3])
        new_next_initial ==
            IF compound_arms[arm][4] = None THEN orig_next_initial
            ELSE Some(InitialConsonant(Unwrap(compound_arms[arm][4])))
    IN  IF arm = 0 THEN NoChange
        ELSE IF new_next_initial = orig_next_initial THEN ChangeFinal(new_final)
        ELSE IF IsSome(new_next_initial)
             THEN ChangeBoth(new_final, Unwrap(new_next_initial))
             ELSE ChangeFinal(new_final)

-----------------------------------------------------------------------------
(* pronunciation.rs: PRONUNCIATION_RULES and apply_pronunciation_rules_to_jamos *)

\* a mutation: reinforcement runs first, on the final as written
PRONUNCIATION_RULES_reinforcement_first ==
    <<"reinforcement_rule", "compound_consonant_rule", "resyllabification_rule">>

\* All pronunciation rules, in the order that they are applied
PRONUNCIATION_RULES ==
    <<"compound_consonant_rule", "resyllabification_rule", "reinforcement_rule">>

\* `rule(&ctx)` for the rule of the given name
call_rule(rule, ctx) ==
    CASE rule = "compound_consonant_rule" -> compound_consonant_rule(ctx)
      [] rule = "resyllabification_rule" -> resyllabification_rule(ctx)
      [] rule = "reinforcement_rule" -> reinforcement_rule(ctx)

\* a mutation: the two Remove results do not leave the loop over the rules
match_rule_result_no_break(st, r) ==
    CASE r.tag = "NoChange" -> st
      [] r.tag = "ChangeNextInitial" ->
            [st EXCEPT !.ctx.next_initial_consonant = r.next]
      [] r.tag = "ChangeFinal" ->
            [st EXCEPT !.ctx.final_consonant = Unwrap(r.final)]
      [] r.tag = "ChangeBoth" ->
            [st EXCEPT !.ctx.final_consonant = Unwrap(r.final),
                       !.ctx.next_initial_consonant = r.next]
      [] r.tag = "RemoveFinal" ->
            [st EXCEPT !.keep_final_consonant = FALSE]
      [] r.tag = "RemoveFinalAndChangeNextInitial" ->
            [st EXCEPT !.keep_final_consonant = FALSE,
                       !.ctx.next_initial_consonant = r.next]

\* `match result` in the loop over the rules: the context, the flag
\* keep_final_consonant and whether the loop was left with `break`
match_rule_result(st, r) ==
    CASE r.tag = "NoChange" -> st
      [] r.tag = "ChangeNextInitial" ->
            [st EXCEPT !.ctx.next_initial_consonant = r.next]
      [] r.tag = "ChangeFinal" ->
            [st EXCEPT !.ctx.final_consonant = Unwrap(r.final)]
      [] r.tag = "ChangeBoth" ->
            [st EXCEPT !.ctx.final_consonant = Unwrap(r.final),
                       !.ctx.next_initial_consonant = r.next]
      [] r.tag = "RemoveFinal" ->
            [st EXCEPT !.keep_final_consonant = FALSE, !.broke = TRUE]
      [] r.tag = "RemoveFinalAndChangeNextInitial" ->
            [st EXCEPT !.keep_final_consonant = FALSE,
                       !.ctx.next_initial_consonant = r.next,
                       !.broke = TRUE]

\* `for rule in PRONUNCIATION_RULES`, from the k-th rule on
RECURSIVE apply_rules(_, _)
apply_rules(st, k) ==
    IF k > Len(PRONUNCIATION_RULES) \/ st.broke THEN st
    ELSE apply_rules(match_rule_result(st, call_rule(PRONUNCIATION_RULES[k], st.ctx)), k + 1)

\* `let mut ctx` and `let mut keep_final_consonant` of the FinalConsonant
\* arm, for the final consonant c of a jamo whose `next` is nxt
rule_loop_start(c, nxt) ==
    [ctx |-> [final_consonant |-> FinalConsonant(c),
              next_initial_consonant |->
                  IF IsSome(nxt) THEN ModernJamo_try_from_char(Unwrap(nxt))
                  ELSE None],
     keep_final_consonant |-> TRUE,
     broke |-> FALSE]

\* the FinalConsonant arm up to the end of the loop over the rules, for the
\* final consonant c of a jamo whose `next` is nxt
final_consonant_arm(c, nxt) == apply_rules(rule_loop_start(c, nxt), 1)

\* the calls `rule(&ctx)` the loop over the rules makes from the k-th rule
\* on, each with the context it was given and the result it returned
RECURSIVE rule_calls(_, _)
rule_calls(st, k) ==
    IF k > Len(PRONUNCIATION_RULES) \/ st.broke THEN <<>>
    ELSE <<[rule |-> PRONUNCIATION_RULES[k], ctx |-> st.ctx,
            result |-> call_rule(PRONUNCIATION_RULES[k], st.ctx)]>>
         \o rule_calls(match_rule_result(st, call_rule(PRONUNCIATION_RULES[k], st.ctx)),
                       k + 1)

\* the chars the FinalConsonant arm pushes onto `result`
final_consonant_pushes(c, nxt) ==
    LET st == final_consonant_arm(c, nxt)
    IN  (IF st.keep_final_consonant THEN <<st.ctx.final_consonant.ch>> ELSE <<>>)
        \o (IF IsSome(st.ctx.next_initial_consonant)
            THEN <<Unwrap(st.ctx.next_initial_consonant).ch>> ELSE <<>>)

\* a mutation: the InitialConsonant arm pushes the consonant even when the
\* flag is set
loop_body_never_skips(jamo, skip) ==
    LET mj == ModernJamo_try_from_char(jamo.curr)
    IN  IF ~IsSome(mj) THEN [pushed |-> <<jamo.curr>>, skip |-> skip]
        ELSE IF Unwrap(mj).kind \in {"InitialConsonant", "Vowel"}
        THEN [pushed |-> <<jamo.curr>>, skip |-> FALSE]
        ELSE [pushed |-> final_consonant_pushes(jamo.curr, jamo.next),
              skip |-> FALSE]

\* one iteration of `for jamo in JamoStream::from_jamos(value)`: the chars
\* pushed onto `result` and the flag after it
loop_body(jamo, skip) ==
    LET mj == ModernJamo_try_from_char(jamo.curr)
    IN  IF ~IsSome(mj) THEN [pushed |-> <<jamo.curr>>, skip |-> skip]
        ELSE IF Unwrap(mj).kind = "InitialConsonant"
        THEN IF skip THEN [pushed |-> <<>>, skip |-> FALSE]
             ELSE [pushed |-> <<jamo.curr>>, skip |-> skip]
        ELSE IF Unwrap(mj).kind = "Vowel"
        THEN [pushed |-> <<jamo.curr>>, skip |-> skip]
        ELSE [pushed |-> final_consonant_pushes(jamo.curr, jamo.next),
              skip |-> IF IsSome(final_consonant_arm(jamo.curr, jamo.next)
                                     .ctx.next_initial_consonant)
                       THEN TRUE ELSE skip]

\* the length of the longest jamo string of the first family of inputs
MaxPronounceLen == 4

\* a space, two initials, a vowel, a simple final, a cluster final, U+11C2
PronounceAlphabet == {32, 4352, 4363, 4449, 4520, 4522, 4546}

\* every short string over the alphabet, and every final consonant after one
\* syllable start, alone, before a space and before every initial consonant
PronounceInputs ==
    SeqsUpTo(PronounceAlphabet, MaxPronounceLen)
    \cup { <<4363, 4449, f>> \o tl :
             f \in 4520..4546,
             tl \in {<<>>, <<32>>} \cup { <<n, 4449>> : n \in 4352..4370 } }

InitPronounce ==
    /\ pc = "pronounce"
    /\ \E v \in PronounceInputs :
          /\ jamos = from_jamos(v).jamos
          /\ syllable_indices = from_jamos(v).syllable_indices
          /\ index = from_jamos(v).index
          /\ syllable_index = from_jamos(v).syllable_index
    /\ text = <<>> /\ item = None /\ calls = 0 /\ seeks = 0
    /\ last_op = [op |-> "new"]
    /\ result = <<>>
    /\ skip_next_initial_consonant = FALSE
    /\ pushed = <<>>
    /\ rule_results = <<>>
    /\ CodecIdle /\ ComposeIdle /\ StringIdle /\ RomanizeIdle /\ LrcIdle
    /\ TableIdle /\ PlayIdle

\* one iteration of the loop: the stream yields a jamo and the body runs
PronounceStep ==
    /\ pc = "pronounce"
    /\ IsSome(next_item(jamos, syllable_indices, index, syllable_index))
    /\ item' = next_item(jamos, syllable_indices, index, syllable_index)
    /\ syllable_index' = next_syllable_index(jamos, index, syllable_index)
    /\ index' = next_index(jamos, index)
    /\ pushed' = loop_body(Unwrap(item'), skip_next_initial_consonant).pushed
    /\ rule_results' =
           IF try_from_char(Unwrap(item').curr) = Some("FinalConsonant")
           THEN rule_calls(rule_loop_start(Unwrap(item').curr, Unwrap(item').next), 1)
           ELSE <<>>
    /\ result' = result \o pushed'
    /\ skip_next_initial_consonant' =
           loop_body(Unwrap(item'), skip_next_initial_consonant).skip
    /\ UNCHANGED <<pc, text, jamos, syllable_indices, calls, seeks, last_op,
                   codecVars, composeVars, stringVars, romanizeVars, lrcVars,
                   tableVars, playVars>>

\* the stream is exhausted and the function returns `result`
PronounceReturn ==
    /\ pc = "pronounce"
    /\ ~IsSome(next_item(jamos, syllable_indices, index, syllable_index))
    /\ pc' = "pronounce_done"
    /\ item' = None
    /\ pushed' = <<>>
    /\ rule_results' = <<>>
    /\ UNCHANGED <<text, jamos, syllable_indices, index, syllable_index, calls,
                   seeks, last_op, result, skip_next_initial_consonant,
                   codecVars, composeVars, stringVars, romanizeVars, lrcVars,
                   tableVars, playVars>>

NextPronounce == PronounceStep \/ PronounceReturn

SpecPronounce == InitPronounce /\ [][NextPronounce]_vars

-----------------------------------------------------------------------------
(* Claims about the pronunciation rules *)

\* the item of the iteration that has just run, while the loop is running
Curr == Unwrap(item).curr
Stepped == pc = "pronounce" /\ IsSome(item)

\* the tensed counterpart of a plain initial: g, d, b, s, j
C11_Tense(n) == n + 1
C11_Finals == {4536, 4520, 4543, 4526, 4538, 4541, 4542, 4544}
C11_PlainInitials == {4352, 4355, 4359, 4361, 4364}

\* C11: when the loop meets one of the eight finals U+11B8, U+11A8, U+11BF,
\* U+11AE, U+11BA, U+11BD, U+11BE, U+11C0 directly before a plain initial
\* g, d, b, s or j, that iteration emits the final unchanged and then the
\* tensed counterpart of the initial, and the iteration for the plain initial
\* itself emits nothing.
C11_Reinforcement ==
    Stepped =>
       /\ (Curr \in C11_Finals /\ IsSome(Unwrap(item).next)
             /\ Unwrap(Unwrap(item).next) \in C11_PlainInitials)
          => pushed = <<Curr, C11_Tense(Unwrap(Unwrap(item).next))>>
       /\ (Curr \in C11_PlainInitials /\ IsSome(Unwrap(item).prev)
             /\ Unwrap(Unwrap(item).prev) \in C11_Finals)
          => pushed = <<>>

\* the final U+11A8 before the initial U+1100 has been emitted as U+11A8,
\* U+1101 and the iteration for U+1100 has added nothing
C11_Witness ==
    /\ Stepped /\ Curr = 4352 /\ Unwrap(item).prev = Some(4520)
    /\ pushed = <<>>
    /\ Len(result) >= 2
    /\ result[Len(result) - 1] = 4520 /\ result[Len(result)] = 4353

\* the simple finals other than U+11BC and U+11C2, each with the initial
\* consonant of the same letter
C12_Relocated ==
    { <<4520, 4352>>, <<4521, 4353>>, <<4523, 4354>>, <<4526, 4355>>,
      <<4527, 4357>>, <<4535, 4358>>, <<4536, 4359>>, <<4538, 4361>>,
      <<4539, 4362>>, <<4541, 4364>>, <<4542, 4366>>, <<4543, 4367>>,
      <<4544, 4368>>, <<4545, 4369>> }

\* C12: when the loop meets a simple final other than U+11BC and U+11C2
\* directly before the silent initial U+110B, that iteration emits exactly
\* the initial consonant of the same letter (neither the final, nor the
\* silent initial, nor a tensed consonant), and the iteration for the
\* silent initial itself emits nothing.
C12_ResyllabificationShortCircuits ==
    Stepped =>
       \A p \in C12_Relocated :
          /\ (Curr = p[1] /\ Unwrap(item).next = Some(4363)) => pushed = <<p[2]>>
          /\ (Curr = 4363 /\ Unwrap(item).prev = Some(p[1])) => pushed = <<>>

\* the final U+11B8 before the silent initial has been emitted as the one
\* initial U+1107 and the iteration for the silent initial has added nothing
C12_Witness ==
    /\ Stepped /\ Curr = 4363 /\ Unwrap(item).prev = Some(4536)
    /\ pushed = <<>>
    /\ Len(result) >= 1 /\ result[Len(result)] = 4359

\* C13: when the loop meets the final U+11BC directly before the silent
\* initial U+110B, that iteration emits the final and the silent initial
\* unchanged; when it meets the final U+11C2 directly before the silent
\* initial, that iteration emits the silent initial alone; in both cases the
\* iteration for the silent initial itself emits nothing.
C13_RelocationExceptions ==
    Stepped =>
       /\ (Curr = 4540 /\ Unwrap(item).next = Some(4363)) => pushed = <<4540, 4363>>
       /\ (Curr = 4546 /\ Unwrap(item).next = Some(4363)) => pushed = <<4363>>
       /\ (Curr = 4363 /\ IsSome(Unwrap(item).prev)
             /\ Unwrap(Unwrap(item).prev) \in {4540, 4546})
          => pushed = <<>>

\* the final U+11C2 before the silent initial has been dropped, the silent
\* initial emitted, and the iteration for the silent initial has added nothing
C13_Witness ==
    /\ Stepped /\ Curr = 4363 /\ Unwrap(item).prev = Some(4546)
    /\ pushed = <<>>
    /\ result = <<4363, 4449, 4363>>

\* C14: when the loop meets the final U+11C2 directly before the initial
\* U+1109, that iteration emits the tensed initial U+110A alone (the final is
\* removed), and the iteration for U+1109 itself emits nothing.
C14_HBeforeS ==
    Stepped =>
       /\ (Curr = 4546 /\ Unwrap(item).next = Some(4361)) => pushed = <<4362>>
       /\ (Curr = 4361 /\ Unwrap(item).prev = Some(4546)) => pushed = <<>>

\* the final U+11C2 before U+1109 has been replaced by U+110A and the
\* iteration for U+1109 has added nothing
C14_Witness ==
    /\ Stepped /\ Curr = 4361 /\ Unwrap(item).prev = Some(4546)
    /\ pushed = <<>>
    /\ result = <<4363, 4449, 4362>>

\* the 11 cluster finals: U+11AA, U+11AC, U+11AD, U+11B0..U+11B6, U+11B9
C15_Clusters == {4522, 4524, 4525, 4537} \cup (4528..4534)

\* C15: for every input, no cluster final U+11AA, U+11AC, U+11AD,
\* U+11B0..U+11B6, U+11B9 is ever emitted: the output built so far holds
\* none of them, and U+11AA before the silent initial is emitted as U+11A8
\* followed by U+110A.
C15_NoClusterFinalEmitted ==
    /\ \A i \in 1..Len(result) : result[i] \notin C15_Clusters
    /\ (Stepped /\ Curr = 4522 /\ Unwrap(item).next = Some(4363))
       => pushed = <<4520, 4362>>

-----------------------------------------------------------------------------
(* romanize.rs: a &'static str is the sequence of its chars *)

\* the romanization of a final consonant, when there is no vowel following it
get_final_with_no_next_vowel(c) ==
    CASE c = 4520 -> Some(<<107>>)                  \* U+11A8 "k"
      [] c = 4521 -> Some(<<107>>)                  \* U+11A9 "k"
      [] c = 4522 -> Some(<<107>>)                  \* U+11AA "k"
      [] c = 4523 -> Some(<<110>>)                  \* U+11AB "n"
      [] c = 4524 -> Some(<<110>>)                  \* U+11AC "n"
      [] c = 4525 -> Some(<<110>>)                  \* U+11AD "n"
      [] c = 4526 -> Some(<<116>>)                  \* U+11AE "t"
      [] c = 4527 -> Some(<<108>>)                  \* U+11AF "l"
      [] c = 4528 -> Some(<<107, 63>>)              \* U+11B0 "k?"
      [] c = 4529 -> Some(<<109>>)                  \* U+11B1 "m"
      [] c = 4530 -> Some(<<108, 63>>)              \* U+11B2 "l?"
      [] c = 4531 -> Some(<<108>>)                  \* U+11B3 "l"
      [] c = 4532 -> Some(<<108>>)                  \* U+11B4 "l"
      [] c = 4533 -> Some(<<112>>)                  \* U+11B5 "p"
      [] c = 4534 -> Some(<<108>>)                  \* U+11B6 "l"
      [] c = 4535 -> Some(<<109>>)                  \* U+11B7 "m"
      [] c = 4536 -> Some(<<112>>)                  \* U+11B8 "p"
      [] c = 4537 -> Some(<<112>>)                  \* U+11B9 "p"
      [] c = 4538 -> Some(<<116>>)                  \* U+11BA "t"
      [] c = 4539 -> Some(<<116>>)                  \* U+11BB "t"
      [] c = 4540 -> Some(<<110, 103>>)             \* U+11BC "ng"
      [] c = 4541 -> Some(<<116>>)                  \* U+11BD "t"
      [] c = 4542 -> Some(<<116>>)                  \* U+11BE "t"
      [] c = 4543 -> Some(<<107>>)                  \* U+11BF "k"
      [] c = 4544 -> Some(<<116>>)                  \* U+11C0 "t"
      [] c = 4545 -> Some(<<112>>)                  \* U+11C1 "p"
      [] c = 4546 -> Some(<<116>>)                  \* U+11C2 "t"
      [] OTHER -> None

\* a mutation: before a vowel the cluster finals give the marker "?"
get_final_with_next_vowel_placeholder(c) ==
    IF c \in {4522, 4524, 4525, 4537} \cup (4528..4534) THEN Some(<<63>>)
    ELSE get_final_with_no_next_vowel(c)

\* the romanization of a final consonant, when there is a vowel following it
get_final_with_next_vowel(c) ==
    CASE c = 4520 -> Some(<<103>>)                  \* U+11A8 "g"
      [] c = 4521 -> Some(<<107, 107>>)             \* U+11A9 "kk"
      [] c = 4522 -> Some(<<103, 115>>)             \* U+11AA "gs"
      [] c = 4523 -> Some(<<110>>)                  \* U+11AB "n"
      [] c = 4524 -> Some(<<110, 106>>)             \* U+11AC "nj"
      [] c = 4525 -> Some(<<110, 104>>)             \* U+11AD "nh"
      [] c = 4526 -> Some(<<100>>)                  \* U+11AE "d"
      [] c = 4527 -> Some(<<108>>)                  \* U+11AF "l"
      [] c = 4528 -> Some(<<108, 103>>)             \* U+11B0 "lg"
      [] c = 4529 -> Some(<<108, 109>>)             \* U+11B1 "lm"
      [] c = 4530 -> Some(<<108, 98>>)              \* U+11B2 "lb"
      [] c = 4531 -> Some(<<108, 115>>)             \* U+11B3 "ls"
      [] c = 4532 -> Some(<<108, 116>>)             \* U+11B4 "lt"
      [] c = 4533 -> Some(<<108, 112>>)             \* U+11B5 "lp"
      [] c = 4534 -> Some(<<108, 104>>)             \* U+11B6 "lh"
      [] c = 4535 -> Some(<<109>>)                  \* U+11B7 "m"
      [] c = 4536 -> Some(<<98>>)                   \* U+11B8 "b"
      [] c = 4537 -> Some(<<98, 115>>)              \* U+11B9 "bs"
      [] c = 4538 -> Some(<<115>>)                  \* U+11BA "s"
      [] c = 4539 -> Some(<<115, 115>>)             \* U+11BB "ss"
      [] c = 4540 -> Some(<<110, 103>>)             \* U+11BC "ng"
      [] c = 4541 -> Some(<<106>>)                  \* U+11BD "j"
      [] c = 4542 -> Some(<<99, 104>>)              \* U+11BE "ch"
      [] c = 4543 -> Some(<<107>>)                  \* U+11BF "k"
      [] c = 4544 -> Some(<<116>>)                  \* U+11C0 "t"
      [] c = 4545 -> Some(<<112>>)                  \* U+11C1 "p"
      [] c = 4546 -> Some(<<104>>)                  \* U+11C2 "h"
      [] OTHER -> None

\* get_romanized_jamo: the arms for the initial consonants and the vowels
romanized_initial_or_vowel(c) ==
    CASE c = 4352 -> Some(<<103>>)                  \* U+1100 "g"
      [] c = 4353 -> Some(<<107, 107>>)             \* U+1101 "kk"
      [] c = 4354 -> Some(<<110>>)                  \* U+1102 "n"
      [] c = 4355 -> Some(<<100>>)                  \* U+1103 "d"
      [] c = 4356 -> Some(<<116, 116>>)             \* U+1104 "tt"
      [] c = 4357 -> Some(<<114>>)                  \* U+1105 "r"
      [] c = 4358 -> Some(<<109>>)                  \* U+1106 "m"
      [] c = 4359 -> Some(<<98>>)                   \* U+1107 "b"
      [] c = 4360 -> Some(<<112, 112>>)             \* U+1108 "pp"
      [] c = 4361 -> Some(<<115>>)                  \* U+1109 "s"
      [] c = 4362 -> Some(<<115, 115>>)             \* U+110A "ss"
      [] c = 4363 -> Some(<<>>)                     \* U+110B ""
      [] c = 4364 -> Some(<<106>>)                  \* U+110C "j"
      [] c = 4365 -> Some(<<106, 106>>)             \* U+110D "jj"
      [] c = 4366 -> Some(<<99, 104>>)              \* U+110E "ch"
      [] c = 4367 -> Some(<<107>>)                  \* U+110F "k"
      [] c = 4368 -> Some(<<116>>)                  \* U+1110 "t"
      [] c = 4369 -> Some(<<112>>)                  \* U+1111 "p"
      [] c = 4370 -> Some(<<104>>)                  \* U+1112 "h"
      [] c = 4449 -> Some(<<97>>)                   \* U+1161 "a"
      [] c = 4450 -> Some(<<97, 101>>)              \* U+1162 "ae"
      [] c = 4451 -> Some(<<121, 97>>)              \* U+1163 "ya"
      [] c = 4452 -> Some(<<121, 97, 101>>)         \* U+1164 "yae"
      [] c = 4453 -> Some(<<101, 111>>)             \* U+1165 "eo"
      [] c = 4454 -> Some(<<101>>)                  \* U+1166 "e"
      [] c = 4455 -> Some(<<121, 101, 111>>)        \* U+1167 "yeo"
      [] c = 4456 -> Some(<<121, 101>>)             \* U+1168 "ye"
      [] c = 4457 -> Some(<<111>>)                  \* U+1169 "o"
      [] c = 4458 -> Some(<<119, 97>>)              \* U+116A "wa"
      [] c = 4459 -> Some(<<119, 97, 101>>)         \* U+116B "wae"
      [] c = 4460 -> Some(<<111, 101>>)             \* U+116C "oe"
      [] c = 4461 -> Some(<<121, 111>>)             \* U+116D "yo"
      [] c = 4462 -> Some(<<117>>)                  \* U+116E "u"
      [] c = 4463 -> Some(<<119, 111>>)             \* U+116F "wo"
      [] c = 4464 -> Some(<<119, 101>>)             \* U+1170 "we"
      [] c = 4465 -> Some(<<119, 105>>)             \* U+1171 "wi"
      [] c = 4466 -> Some(<<121, 117>>)             \* U+1172 "yu"
      [] c = 4467 -> Some(<<101, 117>>)             \* U+1173 "eu"
      [] c = 4468 -> Some(<<117, 105>>)             \* U+1174 "ui"
      [] c = 4469 -> Some(<<105>>)                  \* U+1175 "i"
      [] OTHER -> None

\* get_romanized_jamo
get_romanized_jamo(c, is_next_vowel) ==
    IF IsSome(romanized_initial_or_vowel(c)) THEN romanized_initial_or_vowel(c)
    ELSE IF is_next_vowel THEN get_final_with_next_vowel(c)
    ELSE get_final_with_no_next_vowel(c)

-----------------------------------------------------------------------------
(* romanize.rs: romanize_decomposed_hangul *)

\* a mutation: the input is walked without the appended " "
chars_chain_no_sentinel(v) == v

\* value.as_ref().chars().chain(" ".chars())
chars_chain(v) == v \o <<32>>

\* a mutation: a vowel jamo, not the silent initial, counts as a next vowel
is_next_vowel_on_vowel_jamo(c) == c \in 4449..4469

\* `let is_next_vowel = char == '\u{110b}'`
is_next_vowel(c) == c = 4363

\* the loop body for the char c: what is appended to `result`
romanize_char(prev, c) ==
    IF IsSome(prev)
    THEN IF IsSome(get_romanized_jamo(Unwrap(prev), is_next_vowel(c)))
         THEN Unwrap(get_romanized_jamo(Unwrap(prev), is_next_vowel(c)))
         ELSE <<Unwrap(prev)>>
    ELSE <<>>

\* the length of the longest string of the first family of inputs
MaxRomanizeLen == 3

\* a space, 'h', an initial, the silent initial, an initial outside the
\* modern range, a vowel, a final
RomanizeAlphabet == {32, 104, 4359, 4363, 4371, 4449, 4536}

\* every short string over the alphabet, and every final consonant after an
\* initial and a vowel: last, before each char of the alphabet, and before
\* the syllable U+110B U+1173 U+11AF
RomanizeInputs ==
    SeqsUpTo(RomanizeAlphabet, MaxRomanizeLen)
    \cup { <<4359, 4449, f>> \o tl :
             f \in 4520..4546,
             tl \in {<<>>, <<4363, 4467, 4527>>} \cup { <<c>> : c \in RomanizeAlphabet } }

InitRomanize ==
    /\ pc = "romanize"
    /\ value \in RomanizeInputs
    /\ split_result = <<>> /\ decompose_all_result = <<>>
    /\ romanized = <<>>
    /\ prev_char = None
    /\ chain = chars_chain(value)
    /\ emitted = <<>>
    /\ CodecIdle /\ ComposeIdle /\ StreamIdle /\ PronounceIdle /\ LrcIdle
    /\ TableIdle /\ PlayIdle

\* one iteration of `for char in ...`
RomanizeStep ==
    /\ pc = "romanize"
    /\ chain # <<>>
    /\ emitted' = romanize_char(prev_char, Head(chain))
    /\ romanized' = romanized \o emitted'
    /\ prev_char' = Some(Head(chain))
    /\ chain' = Tail(chain)
    /\ UNCHANGED <<pc, codecVars, composeVars, stringVars, streamVars,
                   pronounceVars, lrcVars,
                   tableVars, playVars>>

\* the iterator is exhausted and the function returns `result`
RomanizeReturn ==
    /\ pc = "romanize"
    /\ chain = <<>>
    /\ pc' = "romanize_done"
    /\ emitted' = <<>>
    /\ UNCHANGED <<romanized, prev_char, chain, codecVars, composeVars,
                   stringVars, streamVars, pronounceVars, lrcVars,
                   tableVars, playVars>>

NextRomanize == RomanizeStep \/ RomanizeReturn

SpecRomanize == InitRomanize /\ [][NextRomanize]_vars

-----------------------------------------------------------------------------
(* Claims about the romanizer *)

\* the number of chars of the chained iterator consumed so far
Consumed == Len(value) + 1 - Len(chain)

\* C16: the iteration that romanizes a final consonant of the input appends
\* its entry of the before-vowel table when the char right after it in the
\* input is the silent initial U+110B, and its entry of the syllable-final
\* table otherwise, the last char of the input included; the jamos of "bap"
\* give "bap" and those of "bab" + U+110B U+1173 U+11AF give "babeul".
C16_FinalTableByNextChar ==
    /\ (pc = "romanize" /\ Consumed >= 2 /\ value[Consumed - 1] \in 4520..4546)
       => emitted = IF Consumed <= Len(value) /\ value[Consumed] = 4363
                    THEN Unwrap(get_final_with_next_vowel(value[Consumed - 1]))
                    ELSE Unwrap(get_final_with_no_next_vowel(value[Consumed - 1]))
    /\ (pc = "romanize_done" /\ value = <<4359, 4449, 4536>>)
       => romanized = <<98, 97, 112>>
    /\ (pc = "romanize_done" /\ value = <<4359, 4449, 4536, 4363, 4467, 4527>>)
       => romanized = <<98, 97, 98, 101, 117, 108>>

\* the final U+11B8 has just been romanized as "b" before the silent initial
C16_Witness ==
    /\ pc = "romanize" /\ Consumed = 4
    /\ value = <<4359, 4449, 4536, 4363, 4467, 4527>>
    /\ emitted = <<98>>

\* the chars get_romanized_jamo has a mapping for
C17_Mapped == (4352..4370) \cup (4449..4469) \cup (4520..4546)

\* C17: the iteration that handles a char of the input with no romanization
\* mapping appends that char itself, and when the function returns on an
\* input with no mapped jamo the output equals the input: nothing is lost,
\* reordered or added, the appended space included.
C17_UnmappedPassThrough ==
    /\ (pc = "romanize" /\ Consumed >= 2 /\ value[Consumed - 1] \notin C17_Mapped)
       => emitted = <<value[Consumed - 1]>>
    /\ (pc = "romanize_done" /\ \A i \in 1..Len(value) : value[i] \notin C17_Mapped)
       => romanized = value

\* the function has returned "h", space, U+1113 for that input
C17_Witness ==
    /\ pc = "romanize_done"
    /\ value = <<104, 32, 4371>>
    /\ romanized = <<104, 32, 4371>>

-----------------------------------------------------------------------------
(* lrc.rs: parse_timestamp; a &str of ASCII chars is the sequence of them *)

\* IResult<&str, u64>
Ok(rest, ms) == [ok |-> TRUE, rest |-> rest, ms |-> ms]
Err == [ok |-> FALSE, rest |-> <<>>, ms |-> 0]

\* char::is_ascii_digit
is_ascii_digit(c) == c \in 48..57

\* digit1 / take_while1(is_ascii_digit): how many leading chars are digits
RECURSIVE digits_len(_)
digits_len(s) ==
    IF s # <<>> /\ is_ascii_digit(Head(s)) THEN 1 + digits_len(Tail(s)) ELSE 0

\* the number a string of digits denotes
RECURSIVE digits_value(_)
digits_value(s) ==
    IF s = <<>> THEN 0
    ELSE 10 * digits_value(SubSeq(s, 1, Len(s) - 1)) + (s[Len(s)] - 48)

\* map_res(digit1, |s| s.parse::<u64>()): the number and the rest, or Err
\* when there is no digit; the fields of the inputs have at most
\* MaxFieldLen + 1 and MaxFractionLen + 1 digits, so every number fits a u64
parse_u64(s) ==
    LET n == digits_len(s)
        v == digits_value(SubSeq(s, 1, n))
    IN  IF n = 0 THEN Err
        ELSE Ok(SubSeq(s, n + 1, Len(s)), v)

\* nom's char(c): the rest after the char c, or Err
parse_char(s, c) ==
    IF s # <<>> /\ Head(s) = c THEN Ok(Tail(s), 0) ELSE Err

\* u64::to_string().len(): the number of decimal digits of n
RECURSIVE to_string_len(_)
to_string_len(n) == IF n < 10 THEN 1 ELSE 1 + to_string_len(n \div 10)

\* 10_u64.pow(k)
RECURSIVE pow10(_)
pow10(k) == IF k = 0 THEN 1 ELSE 10 * pow10(k - 1)

\* the closure's `let milliseconds`: the digits of the input's fraction are
\* not seen here, only the parsed number
milliseconds_of(fraction) ==
    LET fraction_len == to_string_len(fraction)
    IN  IF fraction_len = 2 THEN fraction * 10
        ELSE IF fraction_len = 3 THEN fraction
        ELSE IF fraction_len < 3 THEN fraction * pow10(3 - fraction_len)
        ELSE fraction \div pow10(fraction_len - 3)

\* parse_timestamp
parse_timestamp(s) ==
    LET minutes == parse_u64(s)
        colon == parse_char(minutes.rest, 58)
        seconds == parse_u64(colon.rest)
        dot == parse_char(seconds.rest, 46)
        fraction == parse_u64(dot.rest)
    IN  IF ~minutes.ok THEN Err
        ELSE IF ~colon.ok THEN Err
        ELSE IF ~seconds.ok THEN Err
        ELSE IF ~dot.ok THEN Err
        ELSE IF ~fraction.ok THEN Err
        ELSE Ok(fraction.rest,
                minutes.ms * 60 * 1000 + seconds.ms * 1000
                   + milliseconds_of(fraction.ms))

\* the most digits of the minutes and of the seconds of an input
MaxFieldLen == 2
\* the most digits of the fraction of an input
MaxFractionLen == 4
\* the length of the longest input of the second family
MaxJunkLen == 3

\* '0', '1', '5'
DigitAlphabet == {48, 49, 53}

DigitStrings(n) == SeqsUpTo(DigitAlphabet, n) \ {<<>>}

\* minutes:seconds.fraction, alone or before a ']', and short strings of
\* digits, ':' and '.' that need not be timestamps
TimestampInputs ==
    { m \o <<58>> \o sec \o <<46>> \o f \o tl :
        m \in DigitStrings(MaxFieldLen), sec \in DigitStrings(MaxFieldLen),
        f \in DigitStrings(MaxFractionLen), tl \in {<<>>, <<93>>} }
    \cup SeqsUpTo({49, 58, 46}, MaxJunkLen)

InitLrc ==
    /\ pc = "lrc"
    /\ input \in TimestampInputs
    /\ parsed = Err
    /\ CodecIdle /\ ComposeIdle /\ StringIdle /\ StreamIdle
    /\ PronounceIdle /\ RomanizeIdle
    /\ TableIdle /\ PlayIdle

\* parse_timestamp(input)
ParseTimestamp ==
    /\ pc = "lrc"
    /\ parsed' = parse_timestamp(input)
    /\ pc' = "lrc_done"
    /\ UNCHANGED <<input, codecVars, composeVars, stringVars, streamVars,
                   pronounceVars, romanizeVars,
                   tableVars, playVars>>

NextLrc == ParseTimestamp

SpecLrc == InitLrc /\ [][NextLrc]_vars

-----------------------------------------------------------------------------
(* Claims about the timestamp parser *)

\* the three digit strings of an input minutes:seconds.fraction
C18_Minutes == SubSeq(input, 1, digits_len(input))
C18_AfterColon == SubSeq(input, Len(C18_Minutes) + 2, Len(input))
C18_Seconds == SubSeq(C18_AfterColon, 1, digits_len(C18_AfterColon))
C18_AfterDot == SubSeq(C18_AfterColon, Len(C18_Seconds) + 2, Len(C18_AfterColon))
C18_Fraction == SubSeq(C18_AfterDot, 1, digits_len(C18_AfterDot))

C18_WellFormed ==
    /\ C18_Minutes # <<>> /\ C18_Seconds # <<>> /\ C18_Fraction # <<>>
    /\ input[Len(C18_Minutes) + 1] = 58
    /\ C18_AfterColon[Len(C18_Seconds) + 1] = 46

\* the fraction digits read as a decimal fraction of a second, in
\* milliseconds, digits after the third dropped
C18_FractionMs ==
    CASE Len(C18_Fraction) = 1 -> digits_value(C18_Fraction) * 100
      [] Len(C18_Fraction) = 2 -> digits_value(C18_Fraction) * 10
      [] OTHER -> digits_value(SubSeq(C18_Fraction, 1, 3))

\* C18: for every input minutes:seconds.fraction, parse_timestamp returns
\* minutes*60000 + seconds*1000 + the fraction digits read as a decimal
\* fraction of a second in milliseconds: one digit counts x100, two digits
\* x10, three digits as they are, and digits after the third are dropped.
C18_TimestampMilliseconds ==
    (pc = "lrc_done" /\ C18_WellFormed) =>
       /\ parsed.ok
       /\ parsed.ms = digits_value(C18_Minutes) * 60000
                        + digits_value(C18_Seconds) * 1000 + C18_FractionMs

-----------------------------------------------------------------------------
(* Claims about next() and seek_to_syllable() together *)

\* no jamo is left at the cursor: next() would return none
Exhausted == index >= Len(jamos)

RECURSIVE walk_syllable_index(_, _)
walk_syllable_index(js, i) ==
    IF i = 0 THEN 0
    ELSE next_syllable_index(js, i - 1, walk_syllable_index(js, i - 1))

\* C20: once seek_to_syllable has been called, every next() returns the
\* record (curr, prev, next and next_syllable) that a fresh stream over the
\* same jamos, walked with next() only, returns from the same position.
C20_NextAfterSeekAsFreshWalk ==
    (pc = "stream" /\ seeks >= 1 /\ last_op.op = "next")
        => item = next_item(jamos, syllable_indices, last_op.pre[3],
                            walk_syllable_index(jamos, last_op.pre[3]))

-----------------------------------------------------------------------------
(* Claims about the rules on the context of one final consonant *)

\* the loop has just run the rules on a cluster final whose next jamo is an
\* initial consonant other than the silent U+110B, or is absent
C21_ClusterBeforeSoundedInitial ==
    /\ Stepped /\ Curr \in C15_Clusters
    /\ Len(rule_results) >= 2
    /\ rule_results[1].rule = "compound_consonant_rule"
    /\ \/ rule_results[1].ctx.next_initial_consonant = None
       \/ /\ NextIsInitial(rule_results[1].ctx)
          /\ Unwrap(rule_results[1].ctx.next_initial_consonant).ch # 4363

\* the pairs of a cluster and a next initial for which the compound rule
\* changes the next initial too, each with the new initial
C21_Changed ==
    { <<4525, 4352, 4367>>, <<4525, 4355, 4368>>, <<4525, 4364, 4366>>,
      <<4528, 4352, 4353>>,
      <<4534, 4352, 4367>>, <<4534, 4355, 4368>>, <<4534, 4364, 4366>> }

\* C21 as stated: for every cluster final before an initial consonant other
\* than U+110B, or before nothing, the context the compound rule hands to
\* the next rule has the next initial consonant it was given.
C21_AsClaimed ==
    C21_ClusterBeforeSoundedInitial =>
       rule_results[2].ctx.next_initial_consonant
           = rule_results[1].ctx.next_initial_consonant

\* C21: for every cluster final before an initial consonant other than
\* U+110B, or before nothing, the compound rule replaces the final by a
\* simple final, and it leaves the next initial consonant as it was except
\* for U+11AD and U+11B6 before g, d, j (the initial becomes k, t, ch) and
\* U+11B0 before g (the initial becomes kk).
C21_NextInitialKeptButForAspiration ==
    C21_ClusterBeforeSoundedInitial =>
       LET before == rule_results[1].ctx
           after == rule_results[2].ctx
           hit == { p \in C21_Changed :
                      /\ before.final_consonant.ch = p[1]
                      /\ before.next_initial_consonant = Some(InitialConsonant(p[2])) }
       IN  /\ after.final_consonant.kind = "FinalConsonant"
           /\ after.final_consonant.ch \in (4520..4546) \ C15_Clusters
           /\ IF hit = {}
              THEN after.next_initial_consonant = before.next_initial_consonant
              ELSE \A p \in hit :
                      after.next_initial_consonant = Some(InitialConsonant(p[3]))

\* the compound rule has reduced U+11AA before the initial U+1102 to U+11A8
\* and handed U+1102 on
C21_Witness ==
    /\ C21_ClusterBeforeSoundedInitial
    /\ Curr = 4522
    /\ rule_results[1].ctx.next_initial_consonant = Some(InitialConsonant(4354))
    /\ rule_results[2].ctx.final_consonant = FinalConsonant(4520)
    /\ rule_results[2].ctx.next_initial_consonant = Some(InitialConsonant(4354))

\* what the compound rule makes of the final consonant the loop has just met
C22_Reduced ==
    compound_consonant_rule(rule_loop_start(Curr, Unwrap(item).next).ctx).final

\* C22: when the loop meets a cluster final directly before a plain initial
\* g, d, b, s or j and the compound rule reduces the cluster to U+11A8 or
\* U+11B8, the three rules are called in the order compound,
\* resyllabification, reinforcement, the reinforcement rule is given the
\* reduced final and returns the tensed initial, and the iteration emits the
\* reduced final followed by the tensed initial.
C22_ReinforcementSeesReducedFinal ==
    (/\ Stepped /\ Curr \in C15_Clusters
     /\ IsSome(Unwrap(item).next)
     /\ Unwrap(Unwrap(item).next) \in C11_PlainInitials
     /\ C22_Reduced \in {Some(FinalConsonant(4520)), Some(FinalConsonant(4536))})
    => /\ Len(rule_results) = 3
       /\ rule_results[1].rule = "compound_consonant_rule"
       /\ rule_results[2].rule = "resyllabification_rule"
       /\ rule_results[3].rule = "reinforcement_rule"
       /\ rule_results[1].ctx.final_consonant = FinalConsonant(Curr)
       /\ rule_results[3].ctx.final_consonant = Unwrap(C22_Reduced)
       /\ rule_results[3].result =
              ChangeNextInitial(InitialConsonant(C11_Tense(Unwrap(Unwrap(item).next))))
       /\ pushed = <<Unwrap(C22_Reduced).ch,
                     C11_Tense(Unwrap(Unwrap(item).next))>>

\* the cluster U+11B9 before the initial U+1109 has been emitted as U+11B8
\* followed by the tensed U+110A
C22_Witness ==
    /\ Stepped /\ Curr = 4537 /\ Unwrap(item).next = Some(4361)
    /\ Len(rule_results) = 3
    /\ rule_results[3].ctx.final_consonant = FinalConsonant(4536)
    /\ pushed = <<4536, 4362>>

-----------------------------------------------------------------------------
(* Claims about the whole output of apply_pronunciation_rules_to_jamos *)

IsVowelJamo(c) == c \in 4449..4469
IsInitialJamo(c) == c \in 4352..4370
IsFinalJamo(c) == c \in 4520..4546
IsNonJamo(c) == ~IsVowelJamo(c) /\ ~IsInitialJamo(c) /\ ~IsFinalJamo(c)

\* C23: for every input, the iteration for a vowel or a non-jamo char emits
\* that char and nothing else, no other iteration emits a vowel or a
\* non-jamo char, and the iteration for an initial consonant emits that
\* consonant unless the position right before it was a final consonant, in
\* which case it emits nothing.
C23_VowelsOnceInitialsSkippedAfterFinal ==
    Stepped =>
       /\ (IsVowelJamo(Curr) \/ IsNonJamo(Curr)) => pushed = <<Curr>>
       /\ IsFinalJamo(Curr) =>
             \A i \in 1..Len(pushed) : IsFinalJamo(pushed[i]) \/ IsInitialJamo(pushed[i])
       /\ IsInitialJamo(Curr) =>
             pushed = IF IsSome(Unwrap(item).prev) /\ IsFinalJamo(Unwrap(Unwrap(item).prev))
                      THEN <<>> ELSE <<Curr>>

-----------------------------------------------------------------------------
(* main.rs: the romanization tables of the command-line program *)

\* main.rs get_final_no_next_vowel
get_final_no_next_vowel(c) ==
    CASE c = 4520 -> Some(<<107>>)                  \* U+11A8 "k"
      [] c = 4521 -> Some(<<107>>)                  \* U+11A9 "k"
      [] c = 4522 -> Some(<<63>>)                   \* U+11AA "?"
      [] c = 4523 -> Some(<<110>>)                  \* U+11AB "n"
      [] c = 4524 -> Some(<<63>>)                   \* U+11AC "?"
      [] c = 4525 -> Some(<<63>>)                   \* U+11AD "?"
      [] c = 4526 -> Some(<<116>>)                  \* U+11AE "t"
      [] c = 4527 -> Some(<<108>>)                  \* U+11AF "l"
      [] c = 4528 -> Some(<<63>>)                   \* U+11B0 "?"
      [] c = 4529 -> Some(<<63>>)                   \* U+11B1 "?"
      [] c = 4530 -> Some(<<63>>)                   \* U+11B2 "?"
      [] c = 4531 -> Some(<<63>>)                   \* U+11B3 "?"
      [] c = 4532 -> Some(<<63>>)                   \* U+11B4 "?"
      [] c = 4533 -> Some(<<63>>)                   \* U+11B5 "?"
      [] c = 4534 -> Some(<<63>>)                   \* U+11B6 "?"
      [] c = 4535 -> Some(<<109>>)                  \* U+11B7 "m"
      [] c = 4536 -> Some(<<112>>)                  \* U+11B8 "p"
      [] c = 4537 -> Some(<<63>>)                   \* U+11B9 "?"
      [] c = 4538 -> Some(<<116>>)                  \* U+11BA "t"
      [] c = 4539 -> Some(<<116>>)                  \* U+11BB "t"
      [] c = 4540 -> Some(<<110, 103>>)             \* U+11BC "ng"
      [] c = 4541 -> Some(<<116>>)                  \* U+11BD "t"
      [] c = 4542 -> Some(<<116>>)                  \* U+11BE "t"
      [] c = 4543 -> Some(<<107>>)                  \* U+11BF "k"
      [] c = 4544 -> Some(<<116>>)                  \* U+11C0 "t"
      [] c = 4545 -> Some(<<112>>)                  \* U+11C1 "p"
      [] c = 4546 -> Some(<<116>>)                  \* U+11C2 "t"
      [] OTHER -> None

\* main.rs get_final_next_vowel
get_final_next_vowel(c) ==
    CASE c = 4520 -> Some(<<103>>)                  \* U+11A8 "g"
      [] c = 4521 -> Some(<<107, 107>>)             \* U+11A9 "kk"
      [] c = 4522 -> Some(<<63>>)                   \* U+11AA "?"
      [] c = 4523 -> Some(<<110>>)                  \* U+11AB "n"
      [] c = 4524 -> Some(<<63>>)                   \* U+11AC "?"
      [] c = 4525 -> Some(<<63>>)                   \* U+11AD "?"
      [] c = 4526 -> Some(<<100>>)                  \* U+11AE "d"
      [] c = 4527 -> Some(<<108>>)                  \* U+11AF "l"
      [] c = 4528 -> Some(<<63>>)                   \* U+11B0 "?"
      [] c = 4529 -> Some(<<63>>)                   \* U+11B1 "?"
      [] c = 4530 -> Some(<<63>>)                   \* U+11B2 "?"
      [] c = 4531 -> Some(<<63>>)                   \* U+11B3 "?"
      [] c = 4532 -> Some(<<63>>)                   \* U+11B4 "?"
      [] c = 4533 -> Some(<<63>>)                   \* U+11B5 "?"
      [] c = 4534 -> Some(<<63>>)                   \* U+11B6 "?"
      [] c = 4535 -> Some(<<109>>)                  \* U+11B7 "m"
      [] c = 4536 -> Some(<<98>>)                   \* U+11B8 "b"
      [] c = 4537 -> Some(<<63>>)                   \* U+11B9 "?"
      [] c = 4538 -> Some(<<115>>)                  \* U+11BA "s"
      [] c = 4539 -> Some(<<115, 115>>)             \* U+11BB "ss"
      [] c = 4540 -> Some(<<110, 103>>)             \* U+11BC "ng"
      [] c = 4541 -> Some(<<106>>)                  \* U+11BD "j"
      [] c = 4542 -> Some(<<99, 104>>)              \* U+11BE "ch"
      [] c = 4543 -> Some(<<107>>)                  \* U+11BF "k"
      [] c = 4544 -> Some(<<116>>)                  \* U+11C0 "t"
      [] c = 4545 -> Some(<<112>>)                  \* U+11C1 "p"
      [] c = 4546 -> Some(<<104>>)                  \* U+11C2 "h"
      [] OTHER -> None

\* main.rs get_romanized: the arms for the initial consonants and the vowels
romanized_initial_or_medial(c) ==
    CASE c = 4352 -> Some(<<103>>)                  \* U+1100 "g"
      [] c = 4353 -> Some(<<107, 107>>)             \* U+1101 "kk"
      [] c = 4354 -> Some(<<110>>)                  \* U+1102 "n"
      [] c = 4355 -> Some(<<100>>)                  \* U+1103 "d"
      [] c = 4356 -> Some(<<116, 116>>)             \* U+1104 "tt"
      [] c = 4357 -> Some(<<114>>)                  \* U+1105 "r"
      [] c = 4358 -> Some(<<109>>)                  \* U+1106 "m"
      [] c = 4359 -> Some(<<98>>)                   \* U+1107 "b"
      [] c = 4360 -> Some(<<112, 112>>)             \* U+1108 "pp"
      [] c = 4361 -> Some(<<115>>)                  \* U+1109 "s"
      [] c = 4362 -> Some(<<115, 115>>)             \* U+110A "ss"
      [] c = 4363 -> Some(<<>>)                     \* U+110B ""
      [] c = 4364 -> Some(<<106>>)                  \* U+110C "j"
      [] c = 4365 -> Some(<<106, 106>>)             \* U+110D "jj"
      [] c = 4366 -> Some(<<99, 104>>)              \* U+110E "ch"
      [] c = 4367 -> Some(<<107>>)                  \* U+110F "k"
      [] c = 4368 -> Some(<<116>>)                  \* U+1110 "t"
      [] c = 4369 -> Some(<<112>>)                  \* U+1111 "p"
      [] c = 4370 -> Some(<<104>>)                  \* U+1112 "h"
      [] c = 4449 -> Some(<<97>>)                   \* U+1161 "a"
      [] c = 4450 -> Some(<<97, 101>>)              \* U+1162 "ae"
      [] c = 4451 -> Some(<<121, 97>>)              \* U+1163 "ya"
      [] c = 4452 -> Some(<<121, 97, 101>>)         \* U+1164 "yae"
      [] c = 4453 -> Some(<<101, 111>>)             \* U+1165 "eo"
      [] c = 4454 -> Some(<<101>>)                  \* U+1166 "e"
      [] c = 4455 -> Some(<<121, 101, 111>>)        \* U+1167 "yeo"
      [] c = 4456 -> Some(<<121, 101>>)             \* U+1168 "ye"
      [] c = 4457 -> Some(<<111>>)                  \* U+1169 "o"
      [] c = 4458 -> Some(<<119, 97>>)              \* U+116A "wa"
      [] c = 4459 -> Some(<<119, 97, 101>>)         \* U+116B "wae"
      [] c = 4460 -> Some(<<111, 101>>)             \* U+116C "oe"
      [] c = 4461 -> Some(<<121, 111>>)             \* U+116D "yo"
      [] c = 4462 -> Some(<<117>>)                  \* U+116E "u"
      [] c = 4463 -> Some(<<119, 111>>)             \* U+116F "wo"
      [] c = 4464 -> Some(<<119, 101>>)             \* U+1170 "we"
      [] c = 4465 -> Some(<<119, 105>>)             \* U+1171 "wi"
      [] c = 4466 -> Some(<<121, 117>>)             \* U+1172 "yu"
      [] c = 4467 -> Some(<<101, 117>>)             \* U+1173 "eu"
      [] c = 4468 -> Some(<<117, 105>>)             \* U+1174 "ui"
      [] c = 4469 -> Some(<<105>>)                  \* U+1175 "i"
      [] OTHER -> None

\* main.rs get_romanized
get_romanized(c, next_vowel) ==
    IF IsSome(romanized_initial_or_medial(c)) THEN romanized_initial_or_medial(c)
    ELSE IF next_vowel THEN get_final_next_vowel(c)
    ELSE get_final_no_next_vowel(c)

\* every modern jamo, one char on each side of the ranges of the finals,
\* a space and 'h'
TableChars ==
    (4352..4370) \cup (4449..4469) \cup (4519..4547) \cup {32, 104}

InitTables ==
    /\ pc = "tables"
    /\ jamo_arg \in [ch : TableChars, is_next_vowel : BOOLEAN]
    /\ jamo_romanized = [romanize |-> None, main |-> None]
    /\ CodecIdle /\ ComposeIdle /\ StringIdle /\ StreamIdle
    /\ PronounceIdle /\ RomanizeIdle /\ LrcIdle
    /\ PlayIdle

\* get_romanized_jamo(ch, is_next_vowel) of romanize.rs and
\* get_romanized(ch, is_next_vowel) of main.rs
LookUp ==
    /\ pc = "tables"
    /\ jamo_romanized' =
           [romanize |-> get_romanized_jamo(jamo_arg.ch, jamo_arg.is_next_vowel),
            main |-> get_romanized(jamo_arg.ch, jamo_arg.is_next_vowel)]
    /\ pc' = "tables_done"
    /\ UNCHANGED <<jamo_arg, codecVars, composeVars, stringVars, streamVars,
                   pronounceVars, romanizeVars, lrcVars, playVars>>

NextTables == LookUp

SpecTables == InitTables /\ [][NextTables]_vars

-----------------------------------------------------------------------------
(* Claims about the romanization tables *)

IsLetter(c) == c \in 97..122

-----------------------------------------------------------------------------
(* pronunciation.rs: apply_pronunciation_rules_to_jamos as a function *)

\* the loop from the stream position (i, s) on, with the flag skip: the
\* chars pushed onto `result` until the stream is exhausted
RECURSIVE pronounce_from(_, _, _, _, _)
pronounce_from(js, si, i, s, skip) ==
    LET jamo == next_item(js, si, i, s)
    IN  IF ~IsSome(jamo) THEN <<>>
        ELSE loop_body(Unwrap(jamo), skip).pushed
             \o pronounce_from(js, si, next_index(js, i), next_syllable_index(js, i, s),
                               loop_body(Unwrap(jamo), skip).skip)

apply_pronunciation_rules_to_jamos(v) ==
    pronounce_from(from_jamos(v).jamos, from_jamos(v).syllable_indices,
                   from_jamos(v).index, from_jamos(v).syllable_index, FALSE)

-----------------------------------------------------------------------------
(* Claims about decomposed syllable text *)

\* js is the decomposition of a text of Hangul syllables and non-Hangul
\* chars: blocks of an initial, a vowel and at most one final, and chars
\* that are no Hangul at all
RECURSIVE IsDecomposedText(_)
IsDecomposedText(js) ==
    \/ js = <<>>
    \/ /\ HangulCharClass_from(Head(js)) = "None"
       /\ IsDecomposedText(Tail(js))
    \/ /\ Len(js) >= 2 /\ IsInitialJamo(js[1]) /\ IsVowelJamo(js[2])
       /\ \/ IsDecomposedText(SubSeq(js, 3, Len(js)))
          \/ /\ Len(js) >= 3 /\ IsFinalJamo(js[3])
             /\ IsDecomposedText(SubSeq(js, 4, Len(js)))

\* how many chars of s satisfy the test
Count(s, Test(_)) == Cardinality({i \in 1..Len(s) : Test(s[i])})

Returned == pc = "pronounce_done"

\* C25: when the function returns on the decomposition of a text of Hangul
\* syllables and non-Hangul chars, the output has as many initial consonants
\* and as many vowels as the input, and every vowel of the output stands
\* right after an initial consonant.
C25_SyllableCountPreserved ==
    (Returned /\ IsDecomposedText(jamos))
        => /\ Count(result, IsInitialJamo) = Count(jamos, IsInitialJamo)
           /\ Count(result, IsVowelJamo) = Count(jamos, IsVowelJamo)
           /\ \A i \in 1..Len(result) :
                 IsVowelJamo(result[i]) => (i >= 2 /\ IsInitialJamo(result[i - 1]))

\* the function has returned U+110B U+1161 U+1109 U+1161 for the
\* decomposition of U+C55D U+C544 (final U+11BA before the silent initial)
C25_Witness ==
    /\ Returned
    /\ jamos = <<4363, 4449, 4538, 4363, 4449>>
    /\ result = <<4363, 4449, 4361, 4449>>

\* C26: when the function returns on the decomposition of a text of Hangul
\* syllables and non-Hangul chars, no final consonant of the output other
\* than U+11BC stands right before the silent initial U+110B.
C26_NoFinalBeforeSilentInitial ==
    (Returned /\ IsDecomposedText(jamos))
        => \A i \in 1..(Len(result) - 1) :
              (IsFinalJamo(result[i]) /\ result[i + 1] = 4363) => result[i] = 4540

\* the function has returned on the decomposition of U+C549 U+C544 (cluster
\* U+11AD before the silent initial): the final has moved over as U+1102
C26_Witness ==
    /\ Returned
    /\ jamos = <<4363, 4449, 4525, 4363, 4449>>
    /\ result = <<4363, 4449, 4354, 4449>>

\* C27: when the function returns on the decomposition of a text of Hangul
\* syllables and non-Hangul chars, applying the rules to the output gives
\* the output again.
C27_Idempotent ==
    (Returned /\ IsDecomposedText(jamos))
        => apply_pronunciation_rules_to_jamos(result) = result

\* the function has returned U+110B U+1161 U+11A8 U+110A U+1161 for the
\* decomposition of U+C557 U+C544 (cluster U+11AA before the silent
\* initial), and the rules leave that output as it is
C27_Witness ==
    /\ Returned
    /\ jamos = <<4363, 4449, 4522, 4363, 4449>>
    /\ result = <<4363, 4449, 4520, 4362, 4449>>
    /\ apply_pronunciation_rules_to_jamos(result) = result

-----------------------------------------------------------------------------
(* C28: the jamos of a decomposed syllable are modern jamos *)

\* the chars returned for the char just decomposed
C28_Jamos == TripleChars(Unwrap(decomposed.ret))

\* C28: for every char classified as Syllables the decomposition returns an
\* initial that try_from_char classifies as InitialConsonant, a medial it
\* classifies as Vowel and, when present, a final it classifies as
\* FinalConsonant, so that the pre-scan of from_jamos finds exactly one
\* syllable start among the returned jamos
C28_DecomposedJamosAreModern ==
    (pc = "codec_decomposed" /\ HangulCharClass_from(ch) = "Syllables")
        => /\ ~decomposed.panic
           /\ IsSome(decomposed.ret)
           /\ ~Malformed(C28_Jamos)
           /\ Len(from_jamos(C28_Jamos).syllable_indices) = 1

-----------------------------------------------------------------------------
(* play.rs: the lyrics player *)

\* most lyrics lines, largest timestamp (ms) of a line, most lines shown
MaxLines == 3
MaxPos == 2
MaxShow == 2

\* the fields of App that the key handlers read and write
App ==
    [lyrics |-> lyrics,
     lyrics_lines_to_show |-> lyrics_lines_to_show,
     first_lyrics_line |-> first_lyrics_line,
     curr_lyrics_line |-> curr_lyrics_line,
     curr_word |-> curr_word,
     curr_syllable |-> curr_syllable]

RECURSIVE playback_scan(_, _, _, _)
\* the loop of get_playback_line_idx from its i-th iteration (i counts from
\* 1, idx = i - 1) with latest_idx = latest: it returns latest_idx at the
\* first line later than sink_pos, and None when the iterator runs out
playback_scan(lyr, pos, i, latest) ==
    IF i > Len(lyr) THEN None
    ELSE IF lyr[i][1] <= pos
         THEN playback_scan(lyr, pos, i + 1, Some(i - 1))
         ELSE latest

\* App::get_playback_line_idx, for the position the sink reports
get_playback_line_idx(lyr, pos) == playback_scan(lyr, pos, 1, None)

\* a mutation: the window is not scrolled when the selection leaves it
go_to_next_line_no_scroll(app) ==
    IF app.curr_lyrics_line + 1 < Len(app.lyrics)
    THEN [app EXCEPT !.curr_lyrics_line = @ + 1, !.curr_word = 0, !.curr_syllable = 0]
    ELSE app

\* App::go_to_next_line
go_to_next_line(app) ==
    IF app.curr_lyrics_line + 1 < Len(app.lyrics)
    THEN LET moved == [app EXCEPT !.curr_lyrics_line = @ + 1,
                                  !.curr_word = 0, !.curr_syllable = 0]
         IN  IF moved.first_lyrics_line + moved.lyrics_lines_to_show
                    <= moved.curr_lyrics_line
             THEN [moved EXCEPT !.first_lyrics_line = @ + 1]
             ELSE moved
    ELSE app

\* App::go_to_prev_line
go_to_prev_line(app) ==
    IF app.curr_lyrics_line > 0
    THEN LET moved == [app EXCEPT !.curr_lyrics_line = @ - 1,
                                  !.curr_word = 0, !.curr_syllable = 0]
         IN  IF moved.first_lyrics_line > moved.curr_lyrics_line
             THEN [moved EXCEPT !.first_lyrics_line = moved.curr_lyrics_line]
             ELSE moved
    ELSE app

\* App::get_curr_line_word_lengths: the char counts of the Syllables chunks
\* of the selected line, in order
get_curr_line_word_lengths(app) ==
    LET chunks == split(app.lyrics[app.curr_lyrics_line + 1][2])
        words == SelectSeq(chunks, LAMBDA chunk : chunk[1] = "Syllables")
    IN  [k \in 1..Len(words) |-> Len(words[k][2])]

\* App::select_next_syllable
select_next_syllable(app) ==
    LET word_lengths == get_curr_line_word_lengths(app)
        num_syllables == get(word_lengths, app.curr_word)
    IN  IF IsSome(num_syllables)
        THEN IF app.curr_syllable + 1 < Unwrap(num_syllables)
             THEN [app EXCEPT !.curr_syllable = @ + 1]
             ELSE IF app.curr_word + 1 < Len(word_lengths)
                  THEN [app EXCEPT !.curr_word = @ + 1, !.curr_syllable = 0]
                  ELSE app
        ELSE app

\* App::select_prev_syllable
select_prev_syllable(app) ==
    LET word_lengths == get_curr_line_word_lengths(app)
    IN  IF IsSome(get(word_lengths, app.curr_word))
        THEN IF app.curr_syllable > 0
             THEN [app EXCEPT !.curr_syllable = @ - 1]
             ELSE IF app.curr_word > 0
                  THEN [app EXCEPT !.curr_word = @ - 1,
                                   !.curr_syllable = word_lengths[app.curr_word] - 1]
                  ELSE app
        ELSE app

-----------------------------------------------------------------------------
(* SpecPlay: the event loop of App::run *)

\* "h", and the two words U+B294 U+C774 and U+B294 with a space between
LineTexts == {<<104>>, <<45716, 51060, 32, 45716>>}

\* Vec<(Duration, String)> as lyrics_to_vec returns it: the lines are those
\* of the parsed file, which parse_lrc sorted by timestamp, trimmed and
\* never empty; two lines may carry the same timestamp
LyricsInputs ==
    {l \in SeqsUpTo((0..MaxPos) \X LineTexts, MaxLines) :
        /\ Len(l) >= 1
        /\ \A i \in 1..(Len(l) - 1) : l[i][1] <= l[i + 1][1]}

\* the positions the sink may report: at, between and after the timestamps
SinkPositions == 0..(MaxPos + 1)

\* play(): the App it builds; size()?.1 / 2 lines are shown, which is 0 on a
\* terminal of one row
InitPlay ==
    /\ pc = "play_built"
    /\ lyrics \in LyricsInputs
    /\ lyrics_lines_to_show \in 0..MaxShow
    /\ first_lyrics_line = 0
    /\ curr_lyrics_line = 0
    /\ curr_word = 0
    /\ curr_syllable = 0
    /\ sink_pos = 0
    /\ playback_line_idx = None
    /\ CodecIdle /\ ComposeIdle /\ StringIdle /\ StreamIdle
    /\ PronounceIdle /\ RomanizeIdle /\ LrcIdle /\ TableIdle

\* the handler has left the App as `app`
SetApp(app) ==
    /\ lyrics' = app.lyrics
    /\ lyrics_lines_to_show' = app.lyrics_lines_to_show
    /\ first_lyrics_line' = app.first_lyrics_line
    /\ curr_lyrics_line' = app.curr_lyrics_line
    /\ curr_word' = app.curr_word
    /\ curr_syllable' = app.curr_syllable

\* self.render() at the top of the loop: render_lyrics asks
\* get_playback_line_idx, which reads the position of the sink
Render ==
    \E pos \in SinkPositions :
        /\ sink_pos' = pos
        /\ playback_line_idx' = get_playback_line_idx(lyrics, pos)

\* one turn of the loop of run() that renders and then handles `event`
Turn(handled) ==
    /\ pc \in {"play_built", "play_run"}
    /\ Render
    /\ SetApp(handled)
    /\ pc' = "play_run"
    /\ UNCHANGED <<codecVars, composeVars, stringVars, streamVars,
                   pronounceVars, romanizeVars, lrcVars, tableVars>>

\* Down or Ctrl-N
KeyDown == Turn(go_to_next_line(App))

\* Up or Ctrl-P
KeyUp == Turn(go_to_prev_line(App))

\* Right or Ctrl-F
KeyRight == Turn(select_next_syllable(App))

\* Left or Ctrl-B
KeyLeft == Turn(select_prev_syllable(App))

\* Space, Enter, 'b', any other event, or no event within the poll: only
\* the sink is touched
OtherEvent == Turn(App)

\* Esc: the loop is left after the render
KeyEsc ==
    /\ pc \in {"play_built", "play_run"}
    /\ Render
    /\ pc' = "play_done"
    /\ UNCHANGED <<lyrics, lyrics_lines_to_show, first_lyrics_line, curr_lyrics_line,
                   curr_word, curr_syllable,
                   codecVars, composeVars, stringVars, streamVars,
                   pronounceVars, romanizeVars, lrcVars, tableVars>>

NextPlay == KeyDown \/ KeyUp \/ KeyRight \/ KeyLeft \/ OtherEvent \/ KeyEsc

SpecPlay == InitPlay /\ [][NextPlay]_vars

-----------------------------------------------------------------------------
(* C29: the selected lyrics line stays valid and visible *)

\* C29: from first_lyrics_line = curr_lyrics_line = 0, with lyrics that are
\* not empty and at least one line shown, every sequence of go_to_next_line
\* and go_to_prev_line calls leaves curr_lyrics_line < lyrics.len() and
\* first_lyrics_line <= curr_lyrics_line < first_lyrics_line + lyrics_lines_to_show
C29_SelectionValidAndVisible ==
    (pc \in {"play_built", "play_run", "play_done"} /\ lyrics_lines_to_show >= 1)
        => /\ curr_lyrics_line < Len(lyrics)
           /\ first_lyrics_line <= curr_lyrics_line
           /\ curr_lyrics_line < first_lyrics_line + lyrics_lines_to_show

\* the selection went down past the first window, which scrolled with it,
\* and came back up by one line: it is the last line but one, the top line
\* of a window of two lines that shows the last line too
C29_Witness ==
    /\ pc = "play_run"
    /\ Len(lyrics) = MaxLines
    /\ lyrics_lines_to_show = 2
    /\ first_lyrics_line = MaxLines - 2
    /\ curr_lyrics_line = MaxLines - 2
    /\ first_lyrics_line > 0

-----------------------------------------------------------------------------
(* C30: the line being played *)

\* a render has asked get_playback_line_idx for the position sink_pos
Rendered == pc \in {"play_run", "play_done"}

\* the 0-based indices of the lines whose timestamp is not after sink_pos
C30_Started == {i \in 0..(Len(lyrics) - 1) : lyrics[i + 1][1] <= sink_pos}

\* C30: get_playback_line_idx returns the index of the last lyrics line whose
\* timestamp is less than or equal to the playback position, and returns
\* none only when the position is before the timestamp of the first line
C30_LastStartedLine ==
    Rendered
        => IF C30_Started = {}
           THEN playback_line_idx = None
           ELSE /\ IsSome(playback_line_idx)
                /\ Unwrap(playback_line_idx) \in C30_Started
                /\ \A i \in C30_Started : i <= Unwrap(playback_line_idx)

=============================================================================
